---- MODULE Spec2Model ----
(***************************************************************************)
(* RAG AI Agent: the session store (app/agent/memory.py), the retrieval    *)
(* path of the vector store (app/rag/vector_store.py, app/rag/             *)
(* embeddings.py, app/agent/tools.py), the orchestrator                    *)
(* (app/agent/ai_agent.py) and the HTTP handlers (app/api/routes.py).      *)
(*                                                                         *)
(* Time is the wall clock in minutes.  Handlers are `async def` without    *)
(* any await, so one handler runs to completion before the next starts;    *)
(* the clock advances between handlers and while a handler waits for an    *)
(* external call (classification, embedding, generation).                  *)
(*                                                                         *)
(* Spec is the server handling requests.  EmbSpec is the embeddings        *)
(* generator on its own (single and batch calls), RetSpec the retrieval    *)
(* over any store and threshold, PersistSpec the store with its two files  *)
(* on disk across saves and restarts.                                      *)
(***************************************************************************)
EXTENDS Integers, Sequences, FiniteSets, TLC

\* ------------------------------------------------------------------ bounds
MaxTime == 45
TickMinutes == 15
MaxAsks == 2
MaxTexts == 3
MaxChunks == 4
MaxTopK == 4
MaxSaved == 3
MaxSessions == 2
MaxMessages == 2
MaxTextLen == 4
MaxChunkSize == 3

\* ------------------------------------------------------- program constants
timeout_minutes == 30
DefaultMaxMessages == 10
FieldMinLength == 1
FieldMaxLength == 2000
\* settings.max_query_length, set by the environment below its default of
\* 2000 (at the default the field limit rejects first and the handler's own
\* test never fires)
max_query_length == 1000
top_k_results == 3
\* generate_embeddings_batch: batch_size (the default, which add_documents uses)
DefaultBatchSize == 16
\* VectorStore.dimension (1536), scaled down to two coordinates
Dim == 2
SimilarityThresholdNum == 7
SimilarityThresholdDen == 10

None == "None"
NoAnswer == "I couldn't find relevant information in the company documents. This might be outside my knowledge base."
NoDocuments == "No relevant documents found."

\* uuid4 never repeats: the n-th call returns the n-th identifier of the pool.
SessionIdPool == <<"u1", "u2", "u3", "u4", "u5", "u6">>
uuid4(n) == SessionIdPool[n + 1]

\* ------------------------------------------------------------ the inputs
Queries == {"", "q1", "q2", "q3", "qXL"}
QueryLength(q) ==
  CASE q = ""    -> 0
    [] q = "q1"  -> 12
    [] q = "q2"  -> 1000
    [] q = "q3"  -> 1001
    [] q = "qXL" -> 2001
Answers == {"a1"}
\* what the classification service may reply (raw text)
ClassifierReplies == {" document\n", "DIRECT"}

\* ---------------------------------------------------------- SessionMemory
NoSessions == [sid \in {} |-> None]

is_expired(session, t) == t - session.last_accessed > timeout_minutes

\* mutant: the key is left in the dict
delete_session_mutant_keep(s, sid) == s

delete_session(s, sid) ==
  IF sid \in DOMAIN s THEN [k \in (DOMAIN s) \ {sid} |-> s[k]] ELSE s

\* (created_at is written and never read: left out)
create_session(s, n, t) ==
  LET session_id == uuid4(n)
  IN  [id |-> session_id,
       sessions |-> [k \in (DOMAIN s) \cup {session_id} |->
                       IF k = session_id
                       THEN [messages |-> <<>>, last_accessed |-> t]
                       ELSE s[k]]]

\* mutant: an expired session is reported not-found but left in the store
get_session_mutant_keep(s, sid, t) ==
  IF sid \notin DOMAIN s
  THEN [found |-> FALSE, reaped |-> FALSE, sessions |-> s]
  ELSE IF is_expired(s[sid], t)
       THEN [found |-> FALSE, reaped |-> TRUE, sessions |-> s]
       ELSE [found |-> TRUE, reaped |-> FALSE,
             sessions |-> [s EXCEPT ![sid].last_accessed = t]]

\* mutant: a live session is returned without touching last_accessed
get_session_mutant_stale(s, sid, t) ==
  IF sid \notin DOMAIN s
  THEN [found |-> FALSE, reaped |-> FALSE, sessions |-> s]
  ELSE IF is_expired(s[sid], t)
       THEN [found |-> FALSE, reaped |-> TRUE, sessions |-> delete_session(s, sid)]
       ELSE [found |-> TRUE, reaped |-> FALSE, sessions |-> s]

\* found = the call returned a session (not None); reaped = it deleted an
\* expired one; sessions = the store after the call.
get_session(s, sid, t) ==
  IF sid \notin DOMAIN s
  THEN [found |-> FALSE, reaped |-> FALSE, sessions |-> s]
  ELSE IF is_expired(s[sid], t)
       THEN [found |-> FALSE, reaped |-> TRUE, sessions |-> delete_session(s, sid)]
       ELSE [found |-> TRUE, reaped |-> FALSE,
             sessions |-> [s EXCEPT ![sid].last_accessed = t]]

\* mutant: the new message is put in front of the list
add_message_mutant_prepend(s, sid, role, content, t) ==
  LET g == get_session(s, sid, t)
  IN  [appended |-> g.found, reaped |-> g.reaped,
       sessions |-> IF g.found
                    THEN [g.sessions EXCEPT ![sid].messages =
                            <<[role |-> role, content |-> content]>> \o @]
                    ELSE g.sessions]

\* (the timestamp stored with a message is written and never read: left out)
add_message(s, sid, role, content, t) ==
  LET g == get_session(s, sid, t)
  IN  [appended |-> g.found, reaped |-> g.reaped,
       sessions |-> IF g.found
                    THEN [g.sessions EXCEPT ![sid].messages =
                            Append(@, [role |-> role, content |-> content])]
                    ELSE g.sessions]

\* messages[-limit:] of Python, for limit > 0
LastN(seq, n) ==
  IF n >= Len(seq) THEN seq ELSE SubSeq(seq, Len(seq) - n + 1, Len(seq))

get_messages(s, sid, limit, t) ==
  LET g == get_session(s, sid, t)
  IN  [reaped |-> g.reaped, sessions |-> g.sessions,
       ret |-> IF ~g.found THEN <<>>
               ELSE IF limit # 0 THEN LastN(g.sessions[sid].messages, limit)
               ELSE g.sessions[sid].messages]

\* The text is kept as its lines: the header, then "role: content" per message.
\* The empty string is the empty sequence of lines.
ContextHeader == <<"Previous conversation:">>
ContextLine(msg) == <<msg.role, ": ", msg.content>>

get_conversation_context(s, sid, max_messages, t) ==
  LET m == get_messages(s, sid, max_messages, t)
  IN  [reaped |-> m.reaped, sessions |-> m.sessions,
       ret |-> IF m.ret = <<>> THEN <<>>
               ELSE <<ContextHeader>> \o [i \in 1..Len(m.ret) |-> ContextLine(m.ret[i])]]

\* mutant: the sweep takes a session idle for exactly the timeout as expired
cleanup_expired_sessions_mutant_boundary(s, t) ==
  LET expired_sessions == {sid \in DOMAIN s : t - s[sid].last_accessed >= timeout_minutes}
  IN  [count |-> Cardinality(expired_sessions),
       sessions |-> [k \in (DOMAIN s) \ expired_sessions |-> s[k]]]

cleanup_expired_sessions(s, t) ==
  LET expired_sessions == {sid \in DOMAIN s : is_expired(s[sid], t)}
  IN  [count |-> Cardinality(expired_sessions),
       sessions |-> [k \in (DOMAIN s) \ expired_sessions |-> s[k]]]

get_stats(s) == [total_sessions |-> Cardinality(DOMAIN s), timeout_minutes |-> timeout_minutes]

\* ------------------------------------------------------ EmbeddingsGenerator
\* What the embedding service returns for a text (vectors scaled down to two
\* integer coordinates).
ServiceEmbedding(text) ==
  CASE text = "q1" -> <<1, 0>>
    [] text = "q2" -> <<0, 0>>
    [] text = "c1" -> <<1, 0>>
    [] text = "c2" -> <<1, 1>>
    [] text = "c3" -> <<0, 1>>
    [] text = "c4" -> <<1, 0>>
    [] OTHER       -> <<2, 2>>

NoCache == [text \in {} |-> <<>>]

\* The service does not promise to repeat itself: asked again for the same text
\* it may answer with a vector that has drifted (another model revision).
Drifts == {0, 1}
ServiceReply(text, drift) ==
  <<ServiceEmbedding(text)[1] + drift, ServiceEmbedding(text)[2]>>

\* [0.0] * 1536, at the model's dimension
ZeroVector == [i \in 1..Dim |-> 0]

\* one request to the embedding service: the texts sent, whether it succeeded,
\* and the vectors it answered with
EmbeddingsCreate(input, ok, output, group) ==
  [kind |-> "embed", group |-> group, input |-> input, ok |-> ok,
   output |-> IF ok THEN output ELSE <<>>]

\* mutant: the cache is not consulted; every call asks the service and stores
\* what it answered
generate_embedding_mutant_refresh(c, text, ok, reply) ==
  IF ok
  THEN [raised |-> FALSE, called |-> TRUE, embedding |-> reply,
        cache |-> [k \in (DOMAIN c) \cup {text} |-> IF k = text THEN reply ELSE c[k]]]
  ELSE [raised |-> TRUE, called |-> TRUE, embedding |-> <<>>, cache |-> c]

\* ok = the external call succeeded, reply = the vector it answered with (both
\* read only on a cache miss).
\* raised = the call ended in an exception; called = the service was asked.
generate_embedding(c, text, ok, reply) ==
  IF text \in DOMAIN c
  THEN [raised |-> FALSE, called |-> FALSE, embedding |-> c[text], cache |-> c]
  ELSE IF ok
       THEN [raised |-> FALSE, called |-> TRUE, embedding |-> reply,
             cache |-> [k \in (DOMAIN c) \cup {text} |->
                          IF k = text THEN reply ELSE c[k]]]
       ELSE [raised |-> TRUE, called |-> TRUE, embedding |-> <<>>, cache |-> c]

Min(a, b) == IF a <= b THEN a ELSE b

\* what a batch has produced so far
NoBatch == [embeddings |-> <<>>, calls |-> <<>>]

\* mutant: an item whose own call fails is left out of the returned list
RECURSIVE Fallback_mutant_drop(_, _, _, _, _, _, _)
Fallback_mutant_drop(acc, c, txs, lo, hi, item_ok, drift) ==
  IF lo > hi THEN [embeddings |-> acc.embeddings, calls |-> acc.calls, cache |-> c]
  ELSE LET e == generate_embedding(c, txs[lo], item_ok[lo], ServiceReply(txs[lo], drift))
       IN  Fallback_mutant_drop(
             [embeddings |-> IF e.raised THEN acc.embeddings
                             ELSE Append(acc.embeddings, e.embedding),
              calls |-> IF e.called
                        THEN Append(acc.calls,
                                    EmbeddingsCreate(<<txs[lo]>>, ~e.raised, <<e.embedding>>, FALSE))
                        ELSE acc.calls],
             e.cache, txs, lo + 1, hi, item_ok, drift)

\* generate_embeddings_batch lines 65-72: the texts at positions lo..hi of a
\* group whose request failed, one generate_embedding each; item_ok[i] = the
\* call for position i succeeds.  acc = the embeddings list and the requests
\* so far, c = the cache.
RECURSIVE Fallback(_, _, _, _, _, _, _)
Fallback(acc, c, txs, lo, hi, item_ok, drift) ==
  IF lo > hi THEN [embeddings |-> acc.embeddings, calls |-> acc.calls, cache |-> c]
  ELSE LET e == generate_embedding(c, txs[lo], item_ok[lo], ServiceReply(txs[lo], drift))
       IN  Fallback(
             [embeddings |-> Append(acc.embeddings,
                                    IF e.raised THEN ZeroVector ELSE e.embedding),
              calls |-> IF e.called
                        THEN Append(acc.calls,
                                    EmbeddingsCreate(<<txs[lo]>>, ~e.raised, <<e.embedding>>, FALSE))
                        ELSE acc.calls],
             e.cache, txs, lo + 1, hi, item_ok, drift)

\* generate_embeddings_batch lines 46-72, from the group that starts at
\* position i (1-based); group_ok[i] = the request for that group succeeds.
RECURSIVE BatchFrom(_, _, _, _, _, _, _, _)
BatchFrom(acc, c, txs, i, batch_size, group_ok, item_ok, drift) ==
  IF i > Len(txs) THEN [embeddings |-> acc.embeddings, calls |-> acc.calls, cache |-> c]
  ELSE LET hi == Min(i + batch_size - 1, Len(txs))
           batch == SubSeq(txs, i, hi)
           batch_embeddings == [j \in 1..Len(batch) |-> ServiceReply(batch[j], drift)]
           request == EmbeddingsCreate(batch, group_ok[i], batch_embeddings, TRUE)
           sent == [embeddings |-> acc.embeddings, calls |-> Append(acc.calls, request)]
       IN  IF group_ok[i]
           THEN BatchFrom([sent EXCEPT !.embeddings = @ \o batch_embeddings],
                          c, txs, hi + 1, batch_size, group_ok, item_ok, drift)
           ELSE LET f == Fallback(sent, c, txs, i, hi, item_ok, drift)
                IN  BatchFrom([embeddings |-> f.embeddings, calls |-> f.calls],
                              f.cache, txs, hi + 1, batch_size, group_ok, item_ok, drift)

generate_embeddings_batch(c, txs, batch_size, group_ok, item_ok, drift) ==
  BatchFrom(NoBatch, c, txs, 1, batch_size, group_ok, item_ok, drift)

\* -------------------------------------------------------------- VectorStore
\* The snapshots initialize() may find on disk: none, or two chunks of one file.
EmptyStore == [index |-> <<>>, documents |-> <<>>]
LoadedStore ==
  [index |-> <<ServiceEmbedding("c1"), ServiceEmbedding("c2")>>,
   documents |-> <<[content |-> "c1", source |-> "leave.txt"],
                   [content |-> "c2", source |-> "leave.txt"]>>]
Snapshots == {EmptyStore, LoadedStore}

\* squared Euclidean distance (IndexFlatL2)
L2(u, v) == (u[1] - v[1]) * (u[1] - v[1]) + (u[2] - v[2]) * (u[2] - v[2])

\* mutant: equal distances are ranked latest position first
IndexSearch_mutant_latest(idx, qv, k) ==
  LET n == Len(idx)
      Before(i, j) == \/ L2(idx[i], qv) < L2(idx[j], qv)
                      \/ L2(idx[i], qv) = L2(idx[j], qv) /\ i > j
      RankOf(i) == Cardinality({j \in 1..n : Before(j, i)}) + 1
      At(r) == CHOOSE i \in 1..n : RankOf(i) = r
  IN  [r \in 1..k |->
         IF r <= n
         THEN [missing |-> FALSE, distance |-> L2(idx[At(r)], qv), idx |-> At(r) - 1]
         ELSE [missing |-> TRUE, distance |-> 0, idx |-> -1]]

\* index.search(query_vector, k): the k nearest positions (0-based), nearest
\* first, equal distances by position; when the index holds fewer than k
\* vectors the tail is filled with position -1 at the largest float distance.
IndexSearch(idx, qv, k) ==
  LET n == Len(idx)
      Before(i, j) == \/ L2(idx[i], qv) < L2(idx[j], qv)
                      \/ L2(idx[i], qv) = L2(idx[j], qv) /\ i < j
      RankOf(i) == Cardinality({j \in 1..n : Before(j, i)}) + 1
      At(r) == CHOOSE i \in 1..n : RankOf(i) = r
  IN  [r \in 1..k |->
         IF r <= n
         THEN [missing |-> FALSE, distance |-> L2(idx[At(r)], qv), idx |-> At(r) - 1]
         ELSE [missing |-> TRUE, distance |-> 0, idx |-> -1]]

\* mutant: a hit is kept when its similarity is at most the threshold
AboveThreshold_mutant_below(hit, threshold) ==
  IF hit.missing
  THEN threshold >= 0
  ELSE SimilarityThresholdDen <= threshold * (1 + hit.distance)

\* 1 / (1 + distance) >= similarity_threshold, the threshold given in
\* SimilarityThresholdDen-ths; the filler distance gives a similarity just
\* above zero.
AboveThreshold(hit, threshold) ==
  IF hit.missing
  THEN threshold <= 0
  ELSE SimilarityThresholdDen >= threshold * (1 + hit.distance)

\* documents[idx] of Python: a negative position counts from the end
PyIndex(seq, i) == IF i < 0 THEN seq[Len(seq) + i + 1] ELSE seq[i + 1]

RECURSIVE Keep(_, _, _, _)
Keep(hits, docs, i, threshold) ==
  IF i > Len(hits) THEN <<>>
  ELSE IF hits[i].idx < Len(docs) /\ AboveThreshold(hits[i], threshold)
       THEN <<[content |-> PyIndex(docs, hits[i].idx).content,
               source |-> PyIndex(docs, hits[i].idx).source,
               distance |-> hits[i].distance,
               rank |-> i]>> \o Keep(hits, docs, i + 1, threshold)
       ELSE Keep(hits, docs, i + 1, threshold)

\* search(query, top_k) once the query embedding is known, under
\* settings.similarity_threshold = threshold
search(idx, docs, qv, top_k, threshold) ==
  Keep(IndexSearch(idx, qv, top_k), docs, 1, threshold)

\* mutant: every source is listed, repeats included
Unique_mutant_all(sources, seen) == sources

RECURSIVE Unique(_, _)
Unique(sources, seen) ==
  IF sources = <<>> THEN <<>>
  ELSE IF Head(sources) \in seen THEN Unique(Tail(sources), seen)
       ELSE <<Head(sources)>> \o Unique(Tail(sources), seen \cup {Head(sources)})

get_relevant_chunks(results) ==
  [chunks |-> [i \in 1..Len(results) |-> results[i].content],
   sources |-> Unique([i \in 1..Len(results) |-> results[i].source], {})]

\* DocumentSearchTool.run: (context, sources); the context is kept as its
\* paragraphs, "[label] chunk" each
ToolRun(results) ==
  LET r == get_relevant_chunks(results)
  IN  IF r.chunks = <<>>
      THEN [context |-> <<NoDocuments>>, sources |-> <<>>]
      ELSE [context |-> [i \in 1..Len(r.chunks) |-> [label |-> i, chunk |-> r.chunks[i]]],
            sources |-> r.sources]

\* ------------------------------------------------------------------ AIAgent
\* content.strip().upper()
StripUpper(reply) ==
  CASE reply = " document\n" -> "DOCUMENT"
    [] OTHER                 -> reply

\* "DOCUMENT" in classification
ContainsDOCUMENT(classification) == classification \in {"DOCUMENT", "DOCUMENT."}

\* mutant: a failed classification call selects the direct answer
classify_query_mutant_direct(ok, reply) ==
  IF ok
  THEN [needs_rag |-> ContainsDOCUMENT(StripUpper(reply)),
        classification |-> StripUpper(reply)]
  ELSE [needs_rag |-> FALSE, classification |-> "DIRECT"]

\* ok = the classification call succeeded with `reply`
classify_query(ok, reply) ==
  IF ok
  THEN [needs_rag |-> ContainsDOCUMENT(StripUpper(reply)),
        classification |-> StripUpper(reply)]
  ELSE [needs_rag |-> TRUE, classification |-> "DOCUMENT"]

\* mutant: the user's turn is appended before the context is read
ExecuteBegin_mutant_order(s, n, query, supplied, t) ==
  LET g == get_session(s, supplied, t)
      fresh == supplied = None \/ ~g.found
      c == IF supplied = None THEN create_session(s, n, t)
           ELSE create_session(g.sessions, n, t)
      sid == IF fresh THEN c.id ELSE supplied
      s1 == IF fresh THEN c.sessions ELSE g.sessions
      a == add_message(s1, sid, "user", query, t)
      ctx == get_conversation_context(a.sessions, sid, DefaultMaxMessages, t)
  IN  [session_id |-> sid,
       created |-> fresh,
       conversation_context |-> ctx.ret,
       sessions |-> ctx.sessions]

\* execute, lines 111-121: resolve or create the session, read the
\* conversation context, then append the user's turn.
ExecuteBegin(s, n, query, supplied, t) ==
  LET g == get_session(s, supplied, t)
      fresh == supplied = None \/ ~g.found
      c == IF supplied = None THEN create_session(s, n, t)
           ELSE create_session(g.sessions, n, t)
      sid == IF fresh THEN c.id ELSE supplied
      s1 == IF fresh THEN c.sessions ELSE g.sessions
      ctx == get_conversation_context(s1, sid, DefaultMaxMessages, t)
      a == add_message(ctx.sessions, sid, "user", query, t)
  IN  [session_id |-> sid,
       created |-> fresh,
       conversation_context |-> ctx.ret,
       sessions |-> a.sessions]

\* ------------------------------------------------------------------- state
VARIABLES
  now,                  \* datetime.now(), in minutes
  sessions,             \* SessionMemory.sessions
  issued,               \* number of identifiers uuid4 has produced
  cache,                \* EmbeddingsGenerator.cache
  index,                \* VectorStore.index (the stored vectors)
  documents,            \* VectorStore.documents
  pc,                   \* where the ask handler stands
  asks,                 \* number of Ask requests that entered execute
  request,              \* the QueryRequest being handled
  session_id,           \* execute: session_id
  conversation_context, \* execute: conversation_context
  classification,       \* execute: classification
  sources,              \* execute: sources
  context,              \* execute: context
  answer,               \* execute: answer
  response,             \* the last HTTP response
  calls,                \* external calls issued by the current Ask, in order
  entry,                \* the stores as they were when the current Ask arrived
  prev,                 \* the outcome of the previous Ask
  op,                   \* the store or embedding operation that ran last, outside an Ask
  texts,                \* generate_embeddings_batch: texts (one text: generate_embedding)
  embeddings,           \* generate_embeddings_batch: the returned list
  top_k,                \* search: top_k
  similarity_threshold, \* settings.similarity_threshold, in tenths
  query_vector,         \* search: query_vector
  search_results,       \* search: the returned list
  query,                \* search: query
  chunks,               \* get_relevant_chunks: chunks
  index_file,           \* faiss_index.bin on disk
  docs_file,            \* documents.pkl on disk
  memcall,              \* the SessionMemory call that ran last, and what it returned
  ingest,               \* the ingestion script's own VectorStore and where it stands
  splitter,             \* DocumentProcessor.text_splitter: its chunk size and overlap
  doc_text,             \* chunk_text: text, a sequence of characters
  chunked,              \* chunk_text: the returned list
  accessor,             \* the frame of a get_session or add_message call under way
  sweeper               \* the frame of a cleanup_expired_sessions call under way

vars == <<now, sessions, issued, cache, index, documents, pc, asks,
          request, session_id, conversation_context, classification, sources, context,
          answer, response, calls, entry, prev,
          op, texts, embeddings, top_k, similarity_threshold, query_vector, search_results,
          query, chunks, index_file, docs_file,
          memcall, ingest, splitter, doc_text, chunked, accessor, sweeper>>

\* what the session store driven on its own, the ingestion script running beside
\* a server, and the chunker touch
chunker == <<splitter, doc_text, chunked>>
race == <<accessor, sweeper>>
apart == <<memcall, ingest, chunker, race>>

\* what only the ingestion script and the store's own operations touch
offline == <<op, texts, embeddings, top_k, similarity_threshold, query_vector, search_results,
             query, chunks, index_file, docs_file, apart>>

NoRequest == [query |-> None, session_id |-> None]
NoClassification == [needs_rag |-> FALSE, classification |-> None]
NoResponse ==
  [route |-> None, status |-> 0, answer |-> None, source |-> <<>>, session_id |-> None,
   classification |-> None, used_rag |-> FALSE, num_sources |-> 0,
   total_sessions |-> 0, expired_cleaned |-> 0, detail |-> None]
NoEntry == [sessions |-> NoSessions, cache |-> NoCache, index |-> <<>>,
            documents |-> <<>>, now |-> 0]
NoPrev == [completed |-> FALSE, session_id |-> None, query |-> None, answer |-> None]

\* the identifiers a client can send: none, or one it was given earlier (which
\* is unknown to the store once its session has been reset or has expired)
ClientIds == {None} \cup {uuid4(i) : i \in 0..(issued - 1)}

NoOp == [name |-> None, batch_size |-> 0, raised |-> FALSE]
\* a file that does not exist, and a file holding `data`
NoFile == [exists |-> FALSE, data |-> <<>>]
File(data) == [exists |-> TRUE, data |-> data]

NoCall == [name |-> None, session_id |-> None, role |-> None, content |-> None,
           limit |-> 0, ret |-> None]
NoIngest == [step |-> None, index |-> <<>>, documents |-> <<>>,
             loaded |-> [index |-> <<>>, documents |-> <<>>]]
settings_chunk_size == 1000
settings_chunk_overlap == 200
SettingsSplitter == [chunk_size |-> settings_chunk_size,
                     chunk_overlap |-> settings_chunk_overlap]

NoAccess == [pc |-> "idle", name |-> None, session_id |-> None, found |-> FALSE,
             obj |-> [messages |-> <<>>, last_accessed |-> 0]]
NoSweep == [pc |-> "idle", expired_sessions |-> {}, judged |-> <<>>]

ApartIdle ==
  /\ accessor = NoAccess
  /\ sweeper = NoSweep
  /\ memcall = NoCall
  /\ ingest = NoIngest
  /\ splitter = SettingsSplitter
  /\ doc_text = <<>>
  /\ chunked = <<>>

\* nothing runs outside the request handlers
OfflineIdle ==
  /\ op = NoOp
  /\ texts = <<>>
  /\ embeddings = <<>>
  /\ top_k = top_k_results
  /\ similarity_threshold = SimilarityThresholdNum
  /\ query_vector = <<>>
  /\ search_results = <<>>
  /\ query = None
  /\ chunks = <<>>
  /\ index_file = NoFile
  /\ docs_file = NoFile
  /\ ApartIdle

Init ==
  /\ now = 0
  /\ sessions = NoSessions
  /\ issued = 0
  /\ cache = NoCache
  /\ \E snap \in Snapshots : index = snap.index /\ documents = snap.documents
  /\ pc = "idle"
  /\ asks = 0
  /\ request = NoRequest
  /\ session_id = None
  /\ conversation_context = <<>>
  /\ classification = NoClassification
  /\ sources = <<>>
  /\ context = <<>>
  /\ answer = None
  /\ response = NoResponse
  /\ calls = <<>>
  /\ entry = NoEntry
  /\ prev = NoPrev
  /\ OfflineIdle

\* ----------------------------------------------------------------- actions
\* The clock advances.
Tick ==
  /\ pc \in {"idle", "classify", "search", "generate"}
  /\ now + TickMinutes <= MaxTime
  /\ now' = now + TickMinutes
  /\ UNCHANGED <<offline, sessions, issued, cache, index, documents, pc, asks,
                 request, session_id, conversation_context, classification, sources,
                 context, answer, response, calls, entry, prev>>

Arrive(q, sid) ==
  /\ pc = "idle"
  /\ request' = [query |-> q, session_id |-> sid]
  /\ calls' = <<>>
  /\ entry' = [sessions |-> sessions, cache |-> cache, index |-> index,
                documents |-> documents, now |-> now]

FieldsValid(q) == FieldMinLength <= QueryLength(q) /\ QueryLength(q) <= FieldMaxLength

\* mutant: the handler does not test the length
TooLong_mutant_never(q, limit) == FALSE

\* ask_question line 44
TooLong(q, limit) == QueryLength(q) > limit

\* QueryRequest validation fails: the handler is never entered (422).
AskInvalid(q, sid) ==
  /\ Arrive(q, sid)
  /\ ~FieldsValid(q)
  /\ response' = [NoResponse EXCEPT !.route = "ask", !.status = 422,
                                    !.detail = "validation error"]
  /\ pc' = "done"
  /\ UNCHANGED <<offline, now, sessions, issued, cache, index, documents, asks, session_id,
                 conversation_context, classification, sources, context, answer, prev>>

\* ask_question, lines 44-48 and 55-59: the HTTPException(400) raised inside
\* the try block is an Exception, so the handler's except clause turns it
\* into a 500.
AskTooLong(q, sid) ==
  /\ Arrive(q, sid)
  /\ FieldsValid(q)
  /\ TooLong(q, max_query_length)
  /\ response' = [NoResponse EXCEPT !.route = "ask", !.status = 500,
                                    !.detail = "Error processing query: 400: Query too long"]
  /\ pc' = "done"
  /\ UNCHANGED <<offline, now, sessions, issued, cache, index, documents, asks, session_id,
                 conversation_context, classification, sources, context, answer, prev>>

\* ask_question line 51 and execute lines 111-121.
AskAccept(q, sid) ==
  /\ Arrive(q, sid)
  /\ FieldsValid(q)
  /\ ~TooLong(q, max_query_length)
  /\ asks < MaxAsks
  /\ asks' = asks + 1
  /\ LET b == ExecuteBegin(sessions, issued, q, sid, now)
     IN  /\ session_id' = b.session_id
         /\ conversation_context' = b.conversation_context
         /\ sessions' = b.sessions
         /\ issued' = IF b.created THEN issued + 1 ELSE issued
  /\ pc' = "classify"
  /\ UNCHANGED <<offline, now, cache, index, documents, classification, sources, context,
                 answer, response, prev>>

\* one external call: which service, whether it succeeded, and the
\* conversation history sent with it
Call(kind, ok) ==
  [kind |-> kind, ok |-> ok, query |-> request.query,
   conversation |-> IF kind = "embed" THEN <<>> ELSE conversation_context]

\* mutant: the documents are searched whatever the classification says
AskClassify_mutant_search(ok, reply) ==
  /\ pc = "classify"
  /\ classification' = classify_query(ok, reply)
  /\ calls' = Append(calls, Call("classify", ok))
  /\ pc' = "search"
  /\ UNCHANGED <<offline, now, sessions, issued, cache, index, documents, asks,
                 request, session_id, conversation_context, sources, context, answer,
                 response, entry, prev>>

\* execute line 124: the classification call returns a reply or fails.
AskClassify(ok, reply) ==
  /\ pc = "classify"
  /\ classification' = classify_query(ok, reply)
  /\ calls' = Append(calls, Call("classify", ok))
  /\ pc' = IF classification'.needs_rag THEN "search" ELSE "generate"
  /\ UNCHANGED <<offline, now, sessions, issued, cache, index, documents, asks,
                 request, session_id, conversation_context, sources, context, answer,
                 response, entry, prev>>

Failure(detail) ==
  [NoResponse EXCEPT !.route = "ask", !.status = 500, !.detail = detail]

\* execute lines 130-137: DocumentSearchTool.run -> get_relevant_chunks ->
\* search.  An empty store answers without an embedding call.
AskSearch ==
  /\ pc = "search"
  /\ LET e == generate_embedding(cache, request.query, TRUE,
                                  ServiceEmbedding(request.query))
         results == IF documents = <<>> THEN <<>>
                    ELSE search(index, documents, e.embedding, top_k_results,
                                SimilarityThresholdNum)
         tool == ToolRun(results)
     IN  /\ cache' = IF documents = <<>> THEN cache ELSE e.cache
         /\ calls' = IF documents # <<>> /\ e.called
                     THEN Append(calls, Call("embed", TRUE)) ELSE calls
         /\ context' = tool.context
         /\ sources' = tool.sources
         /\ answer' = IF tool.sources = <<>> THEN NoAnswer ELSE answer
         /\ pc' = IF tool.sources = <<>> THEN "record" ELSE "generate"
  /\ UNCHANGED <<offline, now, sessions, issued, index, documents, asks, request,
                 session_id, conversation_context, classification, response, entry, prev>>

\* The query embedding call fails: the exception leaves execute and the
\* handler answers 500.
AskSearchFail ==
  /\ pc = "search"
  /\ documents # <<>>
  /\ generate_embedding(cache, request.query, FALSE, <<>>).raised
  /\ calls' = Append(calls, Call("embed", FALSE))
  /\ response' = Failure("Error processing query: Error generating embedding")
  /\ pc' = "done"
  /\ UNCHANGED <<offline, now, sessions, issued, cache, index, documents, asks,
                 request, session_id, conversation_context, classification, sources,
                 context, answer, entry, prev>>

\* execute lines 139/142: generate_response returns the model's text.
AskGenerate(a) ==
  /\ pc = "generate"
  /\ calls' = Append(calls, Call("generate", TRUE))
  /\ answer' = a
  /\ pc' = "record"
  /\ UNCHANGED <<offline, now, sessions, issued, cache, index, documents, asks,
                 request, session_id, conversation_context, classification, sources,
                 context, response, entry, prev>>

\* mutant: the failure is swallowed and an error text is stored and returned
AskGenerateFail_mutant_swallow ==
  /\ pc = "generate"
  /\ calls' = Append(calls, Call("generate", FALSE))
  /\ sessions' = add_message(sessions, session_id, "assistant", None, now).sessions
  /\ response' = [NoResponse EXCEPT !.route = "ask", !.status = 500, !.answer = None,
                                    !.detail = "Error generating response"]
  /\ pc' = "done"
  /\ UNCHANGED <<offline, now, issued, cache, index, documents, asks, request, session_id,
                 conversation_context, classification, sources, context, answer, entry,
                 prev>>

\* generate_response raises: the exception leaves execute and the handler
\* answers 500.
AskGenerateFail ==
  /\ pc = "generate"
  /\ calls' = Append(calls, Call("generate", FALSE))
  /\ response' = Failure("Error processing query: Error generating response")
  /\ pc' = "done"
  /\ UNCHANGED <<offline, now, sessions, issued, cache, index, documents, asks,
                 request, session_id, conversation_context, classification, sources,
                 context, answer, entry, prev>>

\* mutant: the answer is returned without being stored
Record_mutant_skip(s, sid, text, t) ==
  LET g == get_session(s, sid, t)
  IN  [appended |-> FALSE, reaped |-> g.reaped, sessions |-> g.sessions]

\* execute line 145
Record(s, sid, text, t) == add_message(s, sid, "assistant", text, t)

\* execute lines 145-156 and ask_question line 53.

AskRecord ==
  /\ pc = "record"
  /\ LET a == Record(sessions, session_id, answer, now)
     IN  sessions' = a.sessions
  /\ response' = [NoResponse EXCEPT !.route = "ask", !.status = 200,
                                    !.answer = answer, !.source = sources,
                                    !.session_id = session_id,
                                    !.classification = classification.classification,
                                    !.used_rag = classification.needs_rag,
                                    !.num_sources = Len(sources)]
  /\ pc' = "done"
  /\ UNCHANGED <<offline, now, issued, cache, index, documents, asks, request,
                 session_id, conversation_context, classification, sources, context,
                 answer, calls, entry, prev>>

\* The response has been sent; the handler's frame is gone.
Return ==
  /\ pc = "done"
  /\ pc' = "idle"
  /\ response' = NoResponse
  /\ prev' = IF response.route # "ask" THEN prev
             ELSE IF response.status = 200
             THEN [completed |-> TRUE, session_id |-> response.session_id,
                   query |-> request.query, answer |-> response.answer]
             ELSE NoPrev
  /\ request' = NoRequest
  /\ session_id' = None
  /\ conversation_context' = <<>>
  /\ classification' = NoClassification
  /\ sources' = <<>>
  /\ context' = <<>>
  /\ answer' = None
  /\ calls' = <<>>
  /\ entry' = NoEntry
  /\ UNCHANGED <<offline, now, sessions, issued, cache, index, documents, asks>>

\* reset_session, lines 62-72.
ResetSession(sid) ==
  /\ pc = "idle"
  /\ sessions' = delete_session(sessions, sid)
  /\ response' = [NoResponse EXCEPT !.route = "reset-session", !.status = 200,
                                    !.session_id = sid]
  /\ pc' = "done"
  /\ UNCHANGED <<offline, now, issued, cache, index, documents, asks,
                 request, session_id, conversation_context, classification, sources,
                 context, answer, calls, entry, prev>>

\* session_stats, lines 121-135.
SessionStats ==
  /\ pc = "idle"
  /\ LET c == cleanup_expired_sessions(sessions, now)
     IN  /\ sessions' = c.sessions
         /\ response' = [NoResponse EXCEPT !.route = "sessions/stats", !.status = 200,
                           !.total_sessions = get_stats(c.sessions).total_sessions,
                           !.expired_cleaned = c.count]
  /\ pc' = "done"
  /\ UNCHANGED <<offline, now, issued, cache, index, documents, asks,
                 request, session_id, conversation_context, classification, sources,
                 context, answer, calls, entry, prev>>

Next ==
  \/ Tick
  \/ \E q \in Queries, sid \in ClientIds : AskInvalid(q, sid)
  \/ \E q \in Queries, sid \in ClientIds : AskTooLong(q, sid)
  \/ \E q \in Queries, sid \in ClientIds : AskAccept(q, sid)
  \/ \E ok \in BOOLEAN, reply \in ClassifierReplies : AskClassify(ok, reply)
  \/ AskSearch
  \/ AskSearchFail
  \/ \E a \in Answers : AskGenerate(a)
  \/ AskGenerateFail
  \/ AskRecord
  \/ Return
  \/ \E sid \in ClientIds \ {None} : ResetSession(sid)
  \/ SessionStats

Spec == Init /\ [][Next]_vars

\* ------------------------------------------- the embeddings generator alone
\* One EmbeddingsGenerator, as the ingestion script and the store use it: calls
\* of generate_embedding and generate_embeddings_batch one after the other, on
\* any texts, with any pattern of service failures.
agent == <<now, sessions, issued, pc, asks, request, session_id, conversation_context,
           classification, sources, context, answer, response, prev>>

\* no request is being handled
HandlersIdle ==
  /\ now = 0
  /\ sessions = NoSessions
  /\ issued = 0
  /\ pc = "idle"
  /\ asks = 0
  /\ request = NoRequest
  /\ session_id = None
  /\ conversation_context = <<>>
  /\ classification = NoClassification
  /\ sources = <<>>
  /\ context = <<>>
  /\ answer = None
  /\ response = NoResponse
  /\ prev = NoPrev

EmbedTexts == {"c1", "c2"}
TextLists == UNION {[1..n -> EmbedTexts] : n \in 0..MaxTexts}
BatchSizes == {1, 2}
\* what happens to the text at a position when the service is asked for it: a
\* failed group request matters at the first position of a group, a failed
\* item call only after a failed group request
Outcomes == {"ok", "group request fails", "group request and item call fail"}

EmbInit ==
  /\ HandlersIdle
  /\ OfflineIdle
  /\ cache = NoCache
  /\ index = <<>>
  /\ documents = <<>>
  /\ calls = <<>>
  /\ entry = NoEntry

\* generate_embedding(text), lines 22-40
EmbedOne(text, ok, drift) ==
  /\ op = NoOp
  /\ \E e \in {generate_embedding(cache, text, ok, ServiceReply(text, drift))} :
         /\ cache' = e.cache
         /\ calls' = IF e.called
                     THEN <<EmbeddingsCreate(<<text>>, ok, <<e.embedding>>, FALSE)>>
                     ELSE <<>>
         /\ embeddings' = IF e.raised THEN <<>> ELSE <<e.embedding>>
         /\ op' = [name |-> "generate_embedding", batch_size |-> 0, raised |-> e.raised]
  /\ texts' = <<text>>
  /\ entry' = [NoEntry EXCEPT !.cache = cache]
  /\ UNCHANGED <<agent, apart, index, documents, top_k, similarity_threshold, query_vector,
                 search_results, query, chunks, index_file, docs_file>>

\* generate_embeddings_batch(texts, batch_size), lines 42-74
EmbedBatch(txs, batch_size, group_ok, item_ok, drift) ==
  /\ op = NoOp
  /\ \E b \in {generate_embeddings_batch(cache, txs, batch_size, group_ok, item_ok, drift)} :
         /\ cache' = b.cache
         /\ calls' = b.calls
         /\ embeddings' = b.embeddings
  /\ op' = [name |-> "generate_embeddings_batch", batch_size |-> batch_size,
            raised |-> FALSE]
  /\ texts' = txs
  /\ entry' = [NoEntry EXCEPT !.cache = cache]
  /\ UNCHANGED <<agent, apart, index, documents, top_k, similarity_threshold, query_vector,
                 search_results, query, chunks, index_file, docs_file>>

\* The caller has taken the result.
EmbedReturn ==
  /\ op # NoOp
  /\ op' = NoOp
  /\ texts' = <<>>
  /\ embeddings' = <<>>
  /\ calls' = <<>>
  /\ entry' = NoEntry
  /\ UNCHANGED <<agent, apart, cache, index, documents, top_k, similarity_threshold,
                 query_vector, search_results, query, chunks, index_file, docs_file>>

EmbNext ==
  \/ \E text \in EmbedTexts, ok \in BOOLEAN, drift \in Drifts : EmbedOne(text, ok, drift)
  \/ \E txs \in TextLists, batch_size \in BatchSizes, drift \in Drifts :
       \E outcome \in [1..Len(txs) -> Outcomes] :
         EmbedBatch(txs, batch_size,
                    [i \in 1..Len(txs) |-> outcome[i] = "ok"],
                    [i \in 1..Len(txs) |-> outcome[i] # "group request and item call fail"],
                    drift)
  \/ EmbedReturn

EmbSpec == EmbInit /\ [][EmbNext]_vars

\* ------------------------------------------------------ retrieval on its own
\* One VectorStore holding any chunks, under any configured threshold:
\* get_relevant_chunks(query, top_k) as DocumentSearchTool.run calls it, for
\* any query and any top_k.
ChunkPool ==
  {[content |-> "c1", source |-> "leave.txt"],
   [content |-> "c2", source |-> "leave.txt"],
   [content |-> "c3", source |-> "faq.txt"],
   [content |-> "c4", source |-> "security.txt"]}
Distinct(d) == \A i, j \in DOMAIN d : i # j => d[i] # d[j]
DocLists == UNION {{d \in [1..n -> ChunkPool] : Distinct(d)} : n \in 0..MaxChunks}
\* the stores add_documents builds: each chunk with the embedding of its content
Stores ==
  {[index |-> [i \in 1..Len(d) |-> ServiceEmbedding(d[i].content)], documents |-> d] :
     d \in DocLists}
\* settings.similarity_threshold, in tenths (the setting is an unconstrained float)
Thresholds == {0, 5, 7, 10}
SearchQueries == {"q1", "q2"}

RetInit ==
  /\ HandlersIdle
  /\ ApartIdle
  /\ cache = NoCache
  /\ calls = <<>>
  /\ entry = NoEntry
  /\ \E store \in Stores : index = store.index /\ documents = store.documents
  /\ similarity_threshold \in Thresholds
  /\ op = NoOp
  /\ texts = <<>>
  /\ embeddings = <<>>
  /\ top_k = top_k_results
  /\ query_vector = <<>>
  /\ search_results = <<>>
  /\ query = None
  /\ chunks = <<>>
  /\ index_file = NoFile
  /\ docs_file = NoFile

\* DocumentSearchTool.run -> get_relevant_chunks(query, top_k) -> search.
\* ok = the embedding call for the query succeeds (read on a cache miss of a
\* store that is not empty).
Retrieve(q, k, ok) ==
  /\ op = NoOp
  /\ query' = q
  /\ top_k' = k
  /\ entry' = [NoEntry EXCEPT !.cache = cache]
  /\ \E e \in {generate_embedding(cache, q, ok, ServiceEmbedding(q))} :
       LET skipped == documents = <<>>
           raised == ~skipped /\ e.raised
           found == IF skipped \/ raised THEN <<>>
                    ELSE search(index, documents, e.embedding, k, similarity_threshold)
           r == get_relevant_chunks(found)
           tool == ToolRun(found)
       IN  /\ cache' = IF skipped THEN cache ELSE e.cache
           /\ calls' = IF ~skipped /\ e.called
                       THEN <<EmbeddingsCreate(<<q>>, ok, <<e.embedding>>, FALSE)>>
                       ELSE <<>>
           /\ query_vector' = IF skipped \/ raised THEN <<>> ELSE e.embedding
           /\ search_results' = found
           /\ chunks' = IF raised THEN <<>> ELSE r.chunks
           /\ sources' = IF raised THEN <<>> ELSE tool.sources
           /\ context' = IF raised THEN <<>> ELSE tool.context
           /\ op' = [name |-> "get_relevant_chunks", batch_size |-> 0, raised |-> raised]
  /\ UNCHANGED <<apart, now, sessions, issued, pc, asks, request, session_id,
                 conversation_context, classification, answer, response, prev,
                 index, documents, similarity_threshold, texts, embeddings,
                 index_file, docs_file>>

\* The caller has taken the result.
RetrieveReturn ==
  /\ op # NoOp
  /\ op' = NoOp
  /\ query' = None
  /\ top_k' = top_k_results
  /\ query_vector' = <<>>
  /\ search_results' = <<>>
  /\ chunks' = <<>>
  /\ sources' = <<>>
  /\ context' = <<>>
  /\ calls' = <<>>
  /\ entry' = NoEntry
  /\ UNCHANGED <<apart, now, sessions, issued, pc, asks, request, session_id,
                 conversation_context, classification, answer, response, prev,
                 cache, index, documents, similarity_threshold, texts, embeddings,
                 index_file, docs_file>>

RetNext ==
  \/ \E q \in SearchQueries, k \in 1..MaxTopK, ok \in BOOLEAN : Retrieve(q, k, ok)
  \/ RetrieveReturn

RetSpec == RetInit /\ [][RetNext]_vars

\* --------------------------------------------------- the snapshot on disk
\* One VectorStore and its two files, as the ingestion script and the server's
\* start and shutdown use them: initialize, add_documents (which saves) and
\* save.  save writes the index file, then the documents file; the process can
\* be killed between any two steps and a new one started, which finds the
\* files as they were left.
Constructed == [name |-> "constructed", batch_size |-> 0, raised |-> FALSE]
SaveBegun == "save"
SaveHalfway == "save: index written"

FileRead(file) == [kind |-> "read", file |-> file]

NewChunks == {d \in [1..1 -> ChunkPool] \cup [1..2 -> ChunkPool] :
                \A i \in DOMAIN d : d[i].content \in EmbedTexts}

PersistInit ==
  /\ HandlersIdle
  /\ ApartIdle
  /\ cache = NoCache
  /\ calls = <<>>
  /\ entry = NoEntry
  /\ index = <<>>
  /\ documents = <<>>
  /\ op = Constructed
  /\ texts = <<>>
  /\ embeddings = <<>>
  /\ top_k = top_k_results
  /\ similarity_threshold = SimilarityThresholdNum
  /\ query_vector = <<>>
  /\ search_results = <<>>
  /\ query = None
  /\ chunks = <<>>
  /\ index_file = NoFile
  /\ docs_file = NoFile

\* the store is initialized and no save is under way
StoreQuiet == op.name \in {None, "initialize"}

\* mutant: the index file is loaded whenever it exists
Initialize_mutant_either ==
  /\ op = Constructed
  /\ IF index_file.exists
     THEN /\ index' = index_file.data
          /\ documents' = docs_file.data
          /\ calls' = <<FileRead("faiss_index.bin"), FileRead("documents.pkl")>>
     ELSE /\ index' = <<>>
          /\ documents' = <<>>
          /\ calls' = <<>>
  /\ op' = [name |-> "initialize", batch_size |-> 0, raised |-> FALSE]
  /\ UNCHANGED <<agent, apart, cache, entry, texts, embeddings, top_k, similarity_threshold,
                 query_vector, search_results, query, chunks, index_file, docs_file>>

\* initialize, lines 25-40
Initialize ==
  /\ op = Constructed
  /\ IF index_file.exists /\ docs_file.exists
     THEN /\ index' = index_file.data
          /\ documents' = docs_file.data
          /\ calls' = <<FileRead("faiss_index.bin"), FileRead("documents.pkl")>>
     ELSE /\ index' = <<>>
          /\ documents' = <<>>
          /\ calls' = <<>>
  /\ op' = [name |-> "initialize", batch_size |-> 0, raised |-> FALSE]
  /\ UNCHANGED <<agent, apart, cache, entry, texts, embeddings, top_k, similarity_threshold,
                 query_vector, search_results, query, chunks, index_file, docs_file>>

\* add_documents(documents, save=True), lines 42-67, up to the call of save;
\* ok = the embedding requests succeed (otherwise zero vectors are stored).
AddDocuments(d, ok) ==
  /\ StoreQuiet
  /\ Len(index) + Len(d) <= MaxSaved
  /\ Len(documents) + Len(d) <= MaxSaved
  /\ \E b \in {generate_embeddings_batch(cache, [i \in 1..Len(d) |-> d[i].content],
                                         DefaultBatchSize,
                                         [i \in 1..Len(d) |-> ok],
                                         [i \in 1..Len(d) |-> ok], 0)} :
       /\ index' = index \o b.embeddings
       /\ cache' = b.cache
       /\ calls' = b.calls
  /\ documents' = documents \o d
  /\ op' = [name |-> SaveBegun, batch_size |-> 0, raised |-> FALSE]
  /\ UNCHANGED <<agent, apart, entry, texts, embeddings, top_k, similarity_threshold,
                 query_vector, search_results, query, chunks, index_file, docs_file>>

\* save() called on its own (the server's shutdown, main.py line 63)
Save ==
  /\ StoreQuiet
  /\ op' = [name |-> SaveBegun, batch_size |-> 0, raised |-> FALSE]
  /\ calls' = <<>>
  /\ UNCHANGED <<agent, apart, cache, entry, index, documents, texts, embeddings, top_k,
                 similarity_threshold, query_vector, search_results, query, chunks,
                 index_file, docs_file>>

\* save line 74: faiss.write_index
WriteIndex ==
  /\ op.name = SaveBegun
  /\ index_file' = File(index)
  /\ op' = [op EXCEPT !.name = SaveHalfway]
  /\ UNCHANGED <<agent, apart, cache, calls, entry, index, documents, texts, embeddings, top_k,
                 similarity_threshold, query_vector, search_results, query, chunks,
                 docs_file>>

\* save lines 75-76: pickle.dump
WriteDocuments ==
  /\ op.name = SaveHalfway
  /\ docs_file' = File(documents)
  /\ op' = NoOp
  /\ UNCHANGED <<agent, apart, cache, calls, entry, index, documents, texts, embeddings, top_k,
                 similarity_threshold, query_vector, search_results, query, chunks,
                 index_file>>

\* The process is killed and a new one constructs its VectorStore (lines
\* 17-23); the files stay as they are.
Restart ==
  /\ op # Constructed
  /\ index' = <<>>
  /\ documents' = <<>>
  /\ cache' = NoCache
  /\ calls' = <<>>
  /\ op' = Constructed
  /\ UNCHANGED <<agent, apart, entry, texts, embeddings, top_k, similarity_threshold,
                 query_vector, search_results, query, chunks, index_file, docs_file>>

PersistNext ==
  \/ Initialize
  \/ \E d \in NewChunks, ok \in BOOLEAN : AddDocuments(d, ok)
  \/ Save
  \/ WriteIndex
  \/ WriteDocuments
  \/ Restart

PersistSpec == PersistInit /\ [][PersistNext]_vars

\* ----------------------------------- the ingestion script beside a server
\* Two processes share the two snapshot files.  scripts/setup.py constructs its
\* own VectorStore (`ingest`), initializes it, calls add_documents once and so
\* saves.  The server constructs its VectorStore (index, documents), initializes
\* it at startup (main.py line 40) and then answers searches.  Each process
\* runs its own statements in order; the two interleave at the file operations.
initialize(ifile, dfile) ==
  IF ifile.exists /\ dfile.exists
  THEN [index |-> ifile.data, documents |-> dfile.data]
  ELSE EmptyStore


IngestInit ==
  /\ HandlersIdle
  /\ cache = NoCache
  /\ calls = <<>>
  /\ entry = NoEntry
  /\ index = <<>>
  /\ documents = <<>>
  /\ op = Constructed
  /\ texts = <<>>
  /\ embeddings = <<>>
  /\ top_k = top_k_results
  /\ similarity_threshold \in {5, SimilarityThresholdNum}
  /\ query_vector = <<>>
  /\ search_results = <<>>
  /\ query = None
  /\ chunks = <<>>
  /\ \/ index_file = NoFile /\ docs_file = NoFile
     \/ \E st \in {x \in Stores : Len(x.documents) <= 1} : /\ index_file = File(st.index)
                                /\ docs_file = File(st.documents)
  /\ memcall = NoCall
  /\ ingest = NoIngest
  /\ splitter = SettingsSplitter
  /\ doc_text = <<>>
  /\ chunked = <<>>
  /\ accessor = NoAccess
  /\ sweeper = NoSweep

\* setup.py line 74: vector_store.initialize()
IngestInitialize ==
  /\ ingest.step = None
  /\ \E st \in {initialize(index_file, docs_file)} :
       ingest' = [step |-> "initialize", index |-> st.index, documents |-> st.documents,
                  loaded |-> st]
  /\ UNCHANGED <<agent, memcall, chunker, race, cache, calls, entry, index, documents, op, texts,
                 embeddings, top_k, similarity_threshold, query_vector, search_results,
                 query, chunks, index_file, docs_file>>

\* setup.py line 87: add_documents(all_chunks), lines 42-64, up to the call of
\* save; ok = the embedding requests succeed (otherwise zero vectors are stored)
IngestAddDocuments(d, ok) ==
  /\ ingest.step = "initialize"
  /\ \E b \in {generate_embeddings_batch(NoCache, [i \in 1..Len(d) |-> d[i].content],
                                         DefaultBatchSize,
                                         [i \in 1..Len(d) |-> ok],
                                         [i \in 1..Len(d) |-> ok], 0)} :
       ingest' = [ingest EXCEPT !.step = SaveBegun,
                                !.index = ingest.index \o b.embeddings,
                                !.documents = ingest.documents \o d]
  /\ UNCHANGED <<agent, memcall, chunker, race, cache, calls, entry, index, documents, op, texts,
                 embeddings, top_k, similarity_threshold, query_vector, search_results,
                 query, chunks, index_file, docs_file>>

\* save line 74, in the ingestion script: faiss.write_index
IngestWriteIndex ==
  /\ ingest.step = SaveBegun
  /\ index_file' = File(ingest.index)
  /\ ingest' = [ingest EXCEPT !.step = SaveHalfway]
  /\ UNCHANGED <<agent, memcall, chunker, race, cache, calls, entry, index, documents, op, texts,
                 embeddings, top_k, similarity_threshold, query_vector, search_results,
                 query, chunks, docs_file>>

\* save lines 75-76, in the ingestion script: pickle.dump
IngestWriteDocuments ==
  /\ ingest.step = SaveHalfway
  /\ docs_file' = File(ingest.documents)
  /\ ingest' = [ingest EXCEPT !.step = "done"]
  /\ UNCHANGED <<agent, memcall, chunker, race, cache, calls, entry, index, documents, op, texts,
                 embeddings, top_k, similarity_threshold, query_vector, search_results,
                 query, chunks, index_file>>

\* main.py line 40: the server's vector_store.initialize()
ServerInitialize ==
  /\ op = Constructed
  /\ \E st \in {initialize(index_file, docs_file)} :
       /\ index' = st.index
       /\ documents' = st.documents
  /\ op' = [name |-> "initialize", batch_size |-> 0, raised |-> FALSE]
  /\ UNCHANGED <<agent, apart, cache, calls, entry, texts, embeddings, top_k,
                 similarity_threshold, query_vector, search_results, query, chunks,
                 index_file, docs_file>>

\* the server's search(query, top_k), lines 80-111
ServerSearch(q, k) ==
  /\ StoreQuiet
  /\ query' = q
  /\ top_k' = k
  /\ query_vector' = IF documents = <<>> THEN <<>> ELSE ServiceEmbedding(q)
  /\ search_results' = IF documents = <<>> THEN <<>>
                       ELSE search(index, documents, ServiceEmbedding(q), k,
                                   similarity_threshold)
  /\ op' = [name |-> "search", batch_size |-> 0, raised |-> FALSE]
  /\ UNCHANGED <<agent, apart, cache, calls, entry, index, documents, texts, embeddings,
                 similarity_threshold, chunks, index_file, docs_file>>

\* The caller has taken the result.
ServerSearchReturn ==
  /\ op.name = "search"
  /\ op' = NoOp
  /\ query' = None
  /\ top_k' = top_k_results
  /\ query_vector' = <<>>
  /\ search_results' = <<>>
  /\ UNCHANGED <<agent, apart, cache, calls, entry, index, documents, texts, embeddings,
                 similarity_threshold, chunks, index_file, docs_file>>

IngestNext ==
  \/ IngestInitialize
  \/ \E d \in NewChunks, ok \in BOOLEAN : IngestAddDocuments(d, ok)
  \/ IngestWriteIndex
  \/ IngestWriteDocuments
  \/ ServerInitialize
  \/ \E q \in SearchQueries, k \in 1..MaxTopK : ServerSearch(q, k)
  \/ ServerSearchReturn

IngestSpec == IngestInit /\ [][IngestNext]_vars


\* ------------------------------------------------- the session store alone
\* One SessionMemory, driven as its callers drive it: the calls execute and the
\* handlers make on it, one after the other in any order and on any identifier,
\* with the clock advancing between calls.  A call runs to its end before the
\* next begins: every caller is a coroutine of the one event loop and none
\* awaits (routes.py lines 34-135).
\* the identifiers a caller can pass: one issued earlier, or one never issued
CallIds == (ClientIds \ {None}) \cup {"no-such-session"}

RECURSIVE TotalMessages(_, _)
TotalMessages(s, ids) ==
  IF ids = {} THEN 0
  ELSE LET sid == CHOOSE k \in ids : TRUE
       IN  Len(s[sid].messages) + TotalMessages(s, ids \ {sid})

\* mutant: the count is taken before the sweep
session_stats_mutant_before(s, t) ==
  LET c == cleanup_expired_sessions(s, t)
      stats == get_stats(s)
  IN  [sessions |-> c.sessions,
       ret |-> [total_sessions |-> stats.total_sessions,
                timeout_minutes |-> stats.timeout_minutes,
                expired_cleaned |-> c.count]]

\* session_stats, lines 121-135: the sweep, then the count
session_stats(s, t) ==
  LET c == cleanup_expired_sessions(s, t)
      stats == get_stats(c.sessions)
  IN  [sessions |-> c.sessions,
       ret |-> [total_sessions |-> stats.total_sessions,
                timeout_minutes |-> stats.timeout_minutes,
                expired_cleaned |-> c.count]]

nosession == <<pc, asks, request, session_id, conversation_context, classification,
               sources, context, answer, response, prev, cache, index, documents, calls,
               op, texts, embeddings, top_k, similarity_threshold, query_vector,
               search_results, query, chunks, index_file, docs_file, ingest, chunker, race>>

SessInit ==
  /\ HandlersIdle
  /\ OfflineIdle
  /\ cache = NoCache
  /\ index = <<>>
  /\ documents = <<>>
  /\ calls = <<>>
  /\ entry = NoEntry

\* the call and its return value are noted, with the store as the call found it
Called(name, sid, role, content, limit, ret) ==
  /\ memcall' = [name |-> name, session_id |-> sid, role |-> role, content |-> content,
                 limit |-> limit, ret |-> ret]
  /\ entry' = [NoEntry EXCEPT !.sessions = sessions, !.now = now]

\* The clock advances between two calls.
SessTick ==
  /\ now + TickMinutes <= MaxTime
  /\ now' = now + TickMinutes
  /\ memcall' = NoCall
  /\ entry' = NoEntry
  /\ UNCHANGED <<nosession, sessions, issued>>

\* create_session(), lines 16-24
CreateSession ==
  /\ issued < MaxSessions
  /\ \E c \in {create_session(sessions, issued, now)} :
       /\ sessions' = c.sessions
       /\ Called("create_session", c.id, None, None, 0, c.id)
  /\ issued' = issued + 1
  /\ UNCHANGED <<nosession, now>>

\* get_session(session_id), lines 26-40; ret = a session was returned
GetSession(sid) ==
  /\ \E g \in {get_session(sessions, sid, now)} :
       /\ sessions' = g.sessions
       /\ Called("get_session", sid, None, None, 0, g.found)
  /\ UNCHANGED <<nosession, now, issued>>

\* add_message(session_id, role, content), lines 47-55 (returns nothing)
AddMessage(sid, role, content) ==
  /\ TotalMessages(sessions, DOMAIN sessions) < MaxMessages
  /\ sessions' = add_message(sessions, sid, role, content, now).sessions
  /\ Called("add_message", sid, role, content, 0, None)
  /\ UNCHANGED <<nosession, now, issued>>

\* get_conversation_context(session_id, max_messages), lines 68-79
GetContext(sid, max_messages) ==
  /\ \E c \in {get_conversation_context(sessions, sid, max_messages, now)} :
       /\ sessions' = c.sessions
       /\ Called("get_conversation_context", sid, None, None, max_messages, c.ret)
  /\ UNCHANGED <<nosession, now, issued>>

\* delete_session(session_id), lines 81-84 (returns nothing)
DeleteSession(sid) ==
  /\ sessions' = delete_session(sessions, sid)
  /\ Called("delete_session", sid, None, None, 0, None)
  /\ UNCHANGED <<nosession, now, issued>>

\* session_stats, the one caller of cleanup_expired_sessions (lines 86-96)
Sweep ==
  /\ \E c \in {session_stats(sessions, now)} :
       /\ sessions' = c.sessions
       /\ Called("cleanup_expired_sessions", None, None, None, 0, c.ret)
  /\ UNCHANGED <<nosession, now, issued>>

SessNext ==
  \/ SessTick
  \/ CreateSession
  \/ \E sid \in CallIds : GetSession(sid)
  \/ \E sid \in CallIds, role \in {"user", "assistant"}, content \in {"q1"} :
       AddMessage(sid, role, content)
  \/ \E sid \in CallIds, max_messages \in {0, 1, DefaultMaxMessages} :
       GetContext(sid, max_messages)
  \/ \E sid \in CallIds : DeleteSession(sid)
  \/ Sweep

SessSpec == SessInit /\ [][SessNext]_vars

\* ------------------------------------------- an access beside the sweep
\* One get_session or add_message call and one cleanup_expired_sessions call
\* on the same SessionMemory, statement by statement.  Both run in coroutines
\* of the one event loop (every handler in routes.py is an `async def` that
\* never awaits), so whichever starts runs to its end before the other takes
\* a step.  The clock moves at any point.
AtRest(frame) == frame.pc = "idle"

\* mutant: the two calls run in threads that preempt each other
RunsToCompletion_mutant_threads(other) == TRUE

\* a statement of one call is taken only while the other call is not under way
RunsToCompletion(other) == AtRest(other)

norace == <<pc, asks, request, session_id, conversation_context, classification,
            sources, context, answer, response, prev, cache, index, documents, calls,
            entry, op, texts, embeddings, top_k, similarity_threshold, query_vector,
            search_results, query, chunks, index_file, docs_file, memcall, ingest,
            chunker>>

RaceInit ==
  /\ HandlersIdle
  /\ OfflineIdle
  /\ cache = NoCache
  /\ index = <<>>
  /\ documents = <<>>
  /\ calls = <<>>
  /\ entry = NoEntry

RaceTick ==
  /\ now + TickMinutes <= MaxTime
  /\ now' = now + TickMinutes
  /\ UNCHANGED <<norace, sessions, issued, race>>

\* create_session(), lines 16-24
RaceCreate ==
  /\ AtRest(accessor) /\ AtRest(sweeper)
  /\ issued < MaxSessions
  /\ sessions' = create_session(sessions, issued, now).sessions
  /\ issued' = issued + 1
  /\ UNCHANGED <<norace, now, race>>

\* get_session(sid) is entered, directly or from add_message (line 49)
AccessBegin(name, sid) ==
  /\ accessor.pc = "idle"
  /\ RunsToCompletion(sweeper)
  /\ name = "add_message" => TotalMessages(sessions, DOMAIN sessions) < MaxMessages
  /\ accessor' = [NoAccess EXCEPT !.pc = "lookup", !.name = name, !.session_id = sid]
  /\ UNCHANGED <<norace, now, sessions, issued, sweeper>>

\* lines 28-31: session = self.sessions.get(session_id); return None if absent
AccessLookup ==
  /\ accessor.pc = "lookup"
  /\ RunsToCompletion(sweeper)
  /\ accessor' = IF accessor.session_id \in DOMAIN sessions
                 THEN [accessor EXCEPT !.pc = "check", !.obj = sessions[accessor.session_id]]
                 ELSE [accessor EXCEPT !.pc = "returned", !.found = FALSE]
  /\ UNCHANGED <<norace, now, sessions, issued, sweeper>>

\* line 34: if self._is_expired(session)
AccessCheck ==
  /\ accessor.pc = "check"
  /\ RunsToCompletion(sweeper)
  /\ accessor' = [accessor EXCEPT !.pc = IF is_expired(accessor.obj, now)
                                         THEN "expire" ELSE "refresh"]
  /\ UNCHANGED <<norace, now, sessions, issued, sweeper>>

\* lines 35-36: self.delete_session(session_id); return None
AccessExpire ==
  /\ accessor.pc = "expire"
  /\ RunsToCompletion(sweeper)
  /\ sessions' = delete_session(sessions, accessor.session_id)
  /\ accessor' = [accessor EXCEPT !.pc = "returned", !.found = FALSE]
  /\ UNCHANGED <<norace, now, issued, sweeper>>

\* lines 39-40: session["last_accessed"] = datetime.now(); return session.  The
\* write goes to the dict the call holds, which is the stored one unless the
\* key was deleted meanwhile.
AccessRefresh ==
  /\ accessor.pc = "refresh"
  /\ RunsToCompletion(sweeper)
  /\ sessions' = IF accessor.session_id \in DOMAIN sessions
                 THEN [sessions EXCEPT ![accessor.session_id].last_accessed = now]
                 ELSE sessions
  /\ accessor' = [accessor EXCEPT !.obj.last_accessed = now, !.found = TRUE,
                                  !.pc = IF accessor.name = "add_message"
                                         THEN "append" ELSE "returned"]
  /\ UNCHANGED <<norace, now, issued, sweeper>>

\* add_message lines 50-55: session["messages"].append(...)
AccessAppend ==
  /\ accessor.pc = "append"
  /\ RunsToCompletion(sweeper)
  /\ sessions' = IF accessor.session_id \in DOMAIN sessions
                 THEN [sessions EXCEPT ![accessor.session_id].messages =
                         Append(@, [role |-> "user", content |-> "q1"])]
                 ELSE sessions
  /\ accessor' = [accessor EXCEPT !.pc = "returned",
                    !.obj.messages = Append(@, [role |-> "user", content |-> "q1"])]
  /\ UNCHANGED <<norace, now, issued, sweeper>>

\* The caller has taken the result.
AccessReturn ==
  /\ accessor.pc = "returned"
  /\ RunsToCompletion(sweeper)
  /\ accessor' = NoAccess
  /\ UNCHANGED <<norace, now, sessions, issued, sweeper>>

\* cleanup_expired_sessions lines 88-91: the list of expired ids is built
SweepJudge ==
  /\ sweeper.pc = "idle"
  /\ RunsToCompletion(accessor)
  /\ LET expired_sessions == {sid \in DOMAIN sessions : is_expired(sessions[sid], now)}
     IN  sweeper' = [pc |-> "delete", expired_sessions |-> expired_sessions,
                     judged |-> [sid \in expired_sessions |-> sessions[sid].last_accessed]]
  /\ UNCHANGED <<norace, now, sessions, issued, accessor>>

\* lines 93-96: every listed id is deleted, the count returned
SweepDelete ==
  /\ sweeper.pc = "delete"
  /\ RunsToCompletion(accessor)
  /\ sessions' = [k \in (DOMAIN sessions) \ sweeper.expired_sessions |-> sessions[k]]
  /\ sweeper' = NoSweep
  /\ UNCHANGED <<norace, now, issued, accessor>>

RaceNext ==
  \/ RaceTick
  \/ RaceCreate
  \/ \E name \in {"get_session", "add_message"}, sid \in CallIds : AccessBegin(name, sid)
  \/ AccessLookup
  \/ AccessCheck
  \/ AccessExpire
  \/ AccessRefresh
  \/ AccessAppend
  \/ AccessReturn
  \/ SweepJudge
  \/ SweepDelete

RaceSpec == RaceInit /\ [][RaceNext]_vars

\* ------------------------------------------------------ DocumentProcessor
\* A text is the sequence of its characters.  chunk_text hands it to the
\* RecursiveCharacterTextSplitter built in __init__ (lines 17-22): separators
\* tried in order, each kept in front of the piece that follows it
\* (keep_separator, the default), pieces shorter than chunk_size merged up to
\* chunk_size with chunk_overlap carried over, every merged chunk stripped of
\* surrounding whitespace (strip_whitespace, the default) and dropped if
\* nothing is left.
Separators == << <<"\n", "\n">>, <<"\n">>, <<".", " ">>, <<" ">>, <<>> >>
Whitespace == {" ", "\n"}

RECURSIVE StripLeft(_)
StripLeft(t) ==
  IF t # <<>> /\ Head(t) \in Whitespace THEN StripLeft(Tail(t)) ELSE t
RECURSIVE StripRight(_)
StripRight(t) ==
  IF t # <<>> /\ t[Len(t)] \in Whitespace THEN StripRight(SubSeq(t, 1, Len(t) - 1)) ELSE t
\* str.strip()
Strip(t) == StripRight(StripLeft(t))

RECURSIVE Concat(_)
Concat(ds) == IF ds = <<>> THEN <<>> ELSE Head(ds) \o Concat(Tail(ds))

\* where the separator first occurs in the text (0: nowhere)
FirstAt(t, sep) ==
  LET at == {i \in 1..Len(t) : /\ i + Len(sep) - 1 <= Len(t)
                               /\ SubSeq(t, i, i + Len(sep) - 1) = sep}
  IN  IF at = {} THEN 0 ELSE CHOOSE i \in at : \A j \in at : i <= j

\* re.split(separator, text): the pieces between the occurrences
RECURSIVE Pieces(_, _)
Pieces(t, sep) ==
  LET i == FirstAt(t, sep)
  IN  IF i = 0 THEN <<t>>
      ELSE <<SubSeq(t, 1, i - 1)>> \o Pieces(SubSeq(t, i + Len(sep), Len(t)), sep)

\* the pieces with the separator kept at the front of each piece after the
\* first, empty pieces dropped; the empty separator splits into characters
split_text_with_regex(t, sep) ==
  LET splits == IF sep = <<>> THEN [i \in 1..Len(t) |-> <<t[i]>>]
                ELSE LET ps == Pieces(t, sep)
                     IN  <<ps[1]>> \o [j \in 1..(Len(ps) - 1) |-> sep \o ps[j + 1]]
  IN  SelectSeq(splits, LAMBDA piece : piece # <<>>)

\* _join_docs with the separator "": the stripped concatenation (empty: None)
join_docs(ds) == Strip(Concat(ds))

\* _merge_splits, the while loop: pieces are dropped from the front of the
\* current chunk until what is left fits the overlap and the next piece
RECURSIVE Pop(_, _, _, _, _)
Pop(current_doc, total, len, size, overlap) ==
  IF total > overlap \/ (total + len > size /\ total > 0)
  THEN Pop(Tail(current_doc), total - Len(Head(current_doc)), len, size, overlap)
  ELSE [current_doc |-> current_doc, total |-> total]

Emit(docs, current_doc) ==
  LET doc == join_docs(current_doc)
  IN  IF doc = <<>> THEN docs ELSE Append(docs, doc)

RECURSIVE MergeFrom(_, _, _, _, _, _, _)
\* mutant: the pieces left over at the end are not emitted
MergeFrom_mutant_tail(splits, i, docs, current_doc, total, size, overlap) ==
  IF i > Len(splits) THEN docs
  ELSE LET d == splits[i]
           len == Len(d)
       IN  IF total + len > size /\ current_doc # <<>>
           THEN LET p == Pop(current_doc, total, len, size, overlap)
                IN  MergeFrom(splits, i + 1, Emit(docs, current_doc),
                              Append(p.current_doc, d), p.total + len, size, overlap)
           ELSE MergeFrom(splits, i + 1, docs, Append(current_doc, d), total + len,
                          size, overlap)

\* _merge_splits, from piece i on
MergeFrom(splits, i, docs, current_doc, total, size, overlap) ==
  IF i > Len(splits) THEN Emit(docs, current_doc)
  ELSE LET d == splits[i]
           len == Len(d)
       IN  IF total + len > size /\ current_doc # <<>>
           THEN LET p == Pop(current_doc, total, len, size, overlap)
                IN  MergeFrom(splits, i + 1, Emit(docs, current_doc),
                              Append(p.current_doc, d), p.total + len, size, overlap)
           ELSE MergeFrom(splits, i + 1, docs, Append(current_doc, d), total + len,
                          size, overlap)

merge_splits(splits, size, overlap) == MergeFrom(splits, 1, <<>>, <<>>, 0, size, overlap)

\* the first separator that occurs in the text (the empty one always does)
SeparatorAt(t, seps) ==
  LET hit == {k \in 1..Len(seps) : seps[k] = <<>> \/ FirstAt(t, seps[k]) # 0}
  IN  IF hit = {} THEN 0 ELSE CHOOSE k \in hit : \A j \in hit : k <= j

\* _split_text(text, separators)
RECURSIVE SplitText(_, _, _, _)
RECURSIVE Walk(_, _, _, _, _, _, _)
Walk(splits, i, good_splits, final_chunks, new_separators, size, overlap) ==
  LET flushed == IF good_splits = <<>> THEN final_chunks
                 ELSE final_chunks \o merge_splits(good_splits, size, overlap)
  IN  IF i > Len(splits) THEN flushed
      ELSE IF Len(splits[i]) < size
           THEN Walk(splits, i + 1, Append(good_splits, splits[i]), final_chunks,
                     new_separators, size, overlap)
           ELSE Walk(splits, i + 1, <<>>,
                     IF new_separators = <<>> THEN Append(flushed, splits[i])
                     ELSE flushed \o SplitText(splits[i], new_separators, size, overlap),
                     new_separators, size, overlap)

SplitText(t, seps, size, overlap) ==
  LET k == SeparatorAt(t, seps)
      separator == IF k = 0 THEN seps[Len(seps)] ELSE seps[k]
      new_separators == IF k = 0 \/ seps[k] = <<>> THEN <<>>
                        ELSE SubSeq(seps, k + 1, Len(seps))
  IN  Walk(split_text_with_regex(t, separator), 1, <<>>, <<>>, new_separators,
           size, overlap)

\* chunk_text(text, metadata), lines 65-82
chunk_text(sp, t, metadata) ==
  LET chs == SplitText(t, Separators, sp.chunk_size, sp.chunk_overlap)
  IN  [i \in 1..Len(chs) |->
         [content |-> chs[i],
          metadata |-> [source |-> metadata.source, chunk_index |-> i - 1,
                        total_chunks |-> Len(chs)]]]

\* ----------------------------------------------------- the chunker alone
\* One DocumentProcessor: its splitter is configured once, from the settings,
\* and chunk_text is then called on any text.
\* the texts: up to MaxTextLen characters, each a letter or a blank
Texts == UNION {[1..n -> {"a", "b", " "}] : n \in 0..MaxTextLen}
Splitters == {[chunk_size |-> size, chunk_overlap |-> overlap] :
                size \in 1..MaxChunkSize, overlap \in 0..(MaxChunkSize - 1)}

ChunkInit ==
  /\ HandlersIdle
  /\ cache = NoCache
  /\ index = <<>>
  /\ documents = <<>>
  /\ calls = <<>>
  /\ entry = NoEntry
  /\ op = NoOp
  /\ texts = <<>>
  /\ embeddings = <<>>
  /\ top_k = top_k_results
  /\ similarity_threshold = SimilarityThresholdNum
  /\ query_vector = <<>>
  /\ search_results = <<>>
  /\ query = None
  /\ chunks = <<>>
  /\ index_file = NoFile
  /\ docs_file = NoFile
  /\ memcall = NoCall
  /\ ingest = NoIngest
  /\ accessor = NoAccess
  /\ sweeper = NoSweep
  /\ \E sp \in Splitters : sp.chunk_overlap < sp.chunk_size /\ splitter = sp
  /\ doc_text = <<>>
  /\ chunked = <<>>

nochunk == <<agent, cache, index, documents, calls, entry, texts, embeddings, top_k,
             similarity_threshold, query_vector, search_results, query, chunks,
             index_file, docs_file, memcall, ingest, race, splitter>>

\* chunk_text(text, metadata), lines 65-82
ChunkText(t) ==
  /\ op = NoOp
  /\ doc_text' = t
  /\ chunked' = chunk_text(splitter, t, [source |-> "leave.txt"])
  /\ op' = [name |-> "chunk_text", batch_size |-> 0, raised |-> FALSE]
  /\ UNCHANGED nochunk

\* The caller has taken the result.
ChunkReturn ==
  /\ op.name = "chunk_text"
  /\ doc_text' = <<>>
  /\ chunked' = <<>>
  /\ op' = NoOp
  /\ UNCHANGED nochunk

ChunkNext ==
  \/ \E t \in Texts : ChunkText(t)
  \/ ChunkReturn

ChunkSpec == ChunkInit /\ [][ChunkNext]_vars

\* ================================================================== claims
InExecute == pc \in {"classify", "search", "generate", "record"}
UserTurn == [role |-> "user", content |-> request.query]
Front(seq) == SubSeq(seq, 1, Len(seq) - 1)
Last(seq) == seq[Len(seq)]
IssuedIds == {uuid4(i) : i \in 0..(issued - 1)}

\* the supplied identifier named a session that was idle past the timeout
\* when the request arrived
SuppliedExpired ==
  /\ request.session_id \in DOMAIN entry.sessions
  /\ is_expired(entry.sessions[request.session_id], entry.now)

\* C1: get_session(id) returns not-found for an id that is not in the store
\* and for a session idle longer than the timeout; in the expired case that
\* very call removes the session (the Ask that supplied it is served from a
\* new session), and an identifier that has left the store never comes back,
\* so every later get_session(id) is not-found too.
C1_GetNotFound ==
  /\ [](\A sid \in IssuedIds :
          LET g == get_session(sessions, sid, now)
          IN  /\ sid \notin DOMAIN sessions => ~g.found /\ g.sessions = sessions
              /\ (sid \in DOMAIN sessions /\ is_expired(sessions[sid], now))
                   => ~g.found /\ sid \notin DOMAIN g.sessions
              /\ (sid \in DOMAIN sessions /\ ~is_expired(sessions[sid], now))
                   => g.found /\ sid \in DOMAIN g.sessions)
  /\ []((InExecute /\ SuppliedExpired)
          => request.session_id \notin DOMAIN sessions /\ session_id # request.session_id)
  /\ [][\A sid \in IssuedIds : sid \notin DOMAIN sessions => sid \notin DOMAIN sessions']_vars

C1_Witness ==
  /\ pc = "record"
  /\ SuppliedExpired
  /\ request.session_id \notin DOMAIN sessions

\* C2 as claimed: after get on a session idle past the timeout has returned
\* not-found, cleanup_expired removes exactly one session (returns 1) and the
\* session count drops by one.
C2_CleanupAfterGetRemovesOne ==
  \A sid \in DOMAIN sessions :
    is_expired(sessions[sid], now) =>
      LET g == get_session(sessions, sid, now)
          c == cleanup_expired_sessions(g.sessions, now)
      IN  /\ ~g.found
          /\ c.count = 1
          /\ get_stats(c.sessions).total_sessions = get_stats(g.sessions).total_sessions - 1

\* C2 as amended: get on a session idle past the timeout returns not-found and
\* itself removes the session, lowering the session count by one; a
\* cleanup_expired called after that get does not find it any more: it
\* returns the number of the other sessions idle past the timeout (0 when
\* there is none) and lowers the count by that number.
C2_GetReclaimsBeforeCleanup ==
  \A sid \in DOMAIN sessions :
    is_expired(sessions[sid], now) =>
      LET g == get_session(sessions, sid, now)
          c == cleanup_expired_sessions(g.sessions, now)
          others == {o \in (DOMAIN sessions) \ {sid} : is_expired(sessions[o], now)}
      IN  /\ ~g.found
          /\ get_stats(g.sessions).total_sessions = get_stats(sessions).total_sessions - 1
          /\ c.count = Cardinality(others)
          /\ get_stats(c.sessions).total_sessions
               = get_stats(g.sessions).total_sessions - Cardinality(others)
          /\ DOMAIN c.sessions = (DOMAIN sessions) \ (others \cup {sid})

\* a store with one expired session and one at exactly the timeout
C2_Witness ==
  \E sid \in DOMAIN sessions, o \in DOMAIN sessions :
    /\ is_expired(sessions[sid], now)
    /\ now - sessions[o].last_accessed = timeout_minutes
    /\ cleanup_expired_sessions(get_session(sessions, sid, now).sessions, now).count = 0

\* the context text for a list of messages
FormatContext(msgs) ==
  IF msgs = <<>> THEN <<>>
  ELSE <<ContextHeader>> \o [i \in 1..Len(msgs) |-> ContextLine(msgs[i])]

\* the history the session held when the request arrived (none for a new one)
HistoryAtEntry ==
  IF session_id = request.session_id /\ session_id \in DOMAIN entry.sessions
  THEN entry.sessions[session_id].messages
  ELSE <<>>

\* C3: in execute the user's turn is in the session before the
\* classification call is issued, and the conversation context handed to
\* classification and to generation is the history without that turn; on the
\* next query of the session the turn is part of the context.
C3_UserTurnBeforeClassify ==
  InExecute =>
    /\ session_id \in DOMAIN sessions
    /\ sessions[session_id].messages = Append(HistoryAtEntry, UserTurn)
    /\ conversation_context = FormatContext(LastN(HistoryAtEntry, DefaultMaxMessages))
    /\ Len(conversation_context) = IF HistoryAtEntry = <<>> THEN 0 ELSE Len(HistoryAtEntry) + 1
    /\ pc = "classify" => calls = <<>>
    /\ \A i \in 1..Len(calls) :
         calls[i].kind \in {"classify", "generate"}
           => calls[i].conversation = conversation_context

C3_Witness ==
  /\ pc = "generate"
  /\ Len(calls) = 1
  /\ HistoryAtEntry # <<>>
  /\ \E i \in 1..Len(HistoryAtEntry) : HistoryAtEntry[i] = UserTurn

\* C4: when an Ask supplies the session id returned by the Ask before it and
\* the session is still live, its conversation context ends with the earlier
\* call's user text followed by the earlier call's answer.
C4_SecondAskSeesFirstTurn ==
  (InExecute /\ prev.completed /\ request.session_id = prev.session_id
     /\ session_id = request.session_id)
  => LET n == Len(conversation_context)
     IN  /\ n >= 3
         /\ conversation_context[n - 1] = <<"user", ": ", prev.query>>
         /\ conversation_context[n] = <<"assistant", ": ", prev.answer>>

C4_Witness ==
  /\ pc = "classify"
  /\ prev.completed
  /\ request.session_id = prev.session_id
  /\ session_id = request.session_id
  /\ prev.query # request.query

AskCompleted == pc = "done" /\ response.route = "ask" /\ response.status = 200

\* C5 as claimed: an Ask that returns a result bundle has appended exactly
\* one user message and then exactly one assistant message to the session
\* named in the bundle, whatever time passed between its steps.
C5_OneUserOneAssistantTurn ==
  AskCompleted =>
    /\ response.session_id \in DOMAIN sessions
    /\ sessions[response.session_id].messages
         = HistoryAtEntry \o <<UserTurn, [role |-> "assistant", content |-> response.answer]>>

\* C6: a failed classification call is not propagated: classify_query answers
\* needs_rag = TRUE and the query goes on to retrieval.
C6_ClassifyFailsOpen ==
  (Len(calls) >= 1 /\ calls[1].kind = "classify" /\ ~calls[1].ok) =>
    /\ classification.needs_rag
    /\ classification.classification = "DOCUMENT"
    /\ pc \in {"search", "generate", "record", "done"}
    /\ pc # "search" => \/ context # <<>>
                        \/ Len(calls) >= 2 /\ calls[2].kind = "embed" /\ ~calls[2].ok
    /\ (pc = "done" /\ response.status # 200) => Len(calls) >= 2

C6_Witness ==
  /\ pc = "search"
  /\ Len(calls) = 1
  /\ ~calls[1].ok

\* C7 as claimed: with grounding selected and no source retrieved, the Ask
\* answers with the fixed text, issues no generation call, and the fixed
\* answer is recorded as the assistant turn.
C7_NoSourcesFixedAnswerRecorded ==
  (AskCompleted /\ response.used_rag /\ response.source = <<>>) =>
    /\ response.answer = NoAnswer
    /\ \A i \in 1..Len(calls) : calls[i].kind # "generate"
    /\ session_id \in DOMAIN sessions
    /\ Last(sessions[session_id].messages) = [role |-> "assistant", content |-> NoAnswer]

\* C8: when the generation call fails the Ask fails as a whole: the response
\* carries no bundle and no answer, no assistant turn is appended, and the
\* session holds the user turn appended before classification.
C8_GenerationFailureFailsTurn ==
  (pc = "done" /\ response.route = "ask" /\ Len(calls) >= 1
     /\ Last(calls).kind = "generate" /\ ~Last(calls).ok)
  => /\ response.status = 500
     /\ response.answer = None
     /\ response.session_id = None
     /\ response.source = <<>>
     /\ session_id \in DOMAIN sessions
     /\ sessions[session_id].messages = Append(HistoryAtEntry, UserTurn)

C8_Witness ==
  /\ pc = "done"
  /\ Len(calls) >= 2
  /\ Last(calls).kind = "generate"
  /\ ~Last(calls).ok
  /\ HistoryAtEntry # <<>>
  /\ now > entry.now

\* C9: an Ask whose query is longer than the configured maximum is rejected
\* before any external call and before any side effect: it never enters
\* execute, no session is created, refreshed or appended to, and the cache
\* and the index are as they were.
C9_TooLongRejectedFirst ==
  (pc # "idle" /\ response.route \notin {"reset-session", "sessions/stats"}
     /\ QueryLength(request.query) > max_query_length)
  => /\ pc = "done"
     /\ response.status # 200
     /\ response.answer = None
     /\ calls = <<>>
     /\ sessions = entry.sessions
     /\ cache = entry.cache
     /\ index = entry.index
     /\ documents = entry.documents

\* a too long query sent with the id of a live session that could be refreshed
C9_Witness ==
  /\ pc = "done"
  /\ response.route = "ask"
  /\ QueryLength(request.query) > max_query_length
  /\ QueryLength(request.query) <= FieldMaxLength
  /\ request.session_id \in DOMAIN sessions
  /\ sessions[request.session_id].last_accessed < now
  /\ ~is_expired(sessions[request.session_id], now)

\* the Ask named no session, or one the store did not hold or held expired
SuppliedNoLiveSession ==
  \/ request.session_id = None
  \/ request.session_id \notin DOMAIN entry.sessions
  \/ SuppliedExpired

\* C10 as claimed: an Ask without a session id, or with an unknown or expired
\* one, is served from a fresh session with empty history, and the session id
\* in its bundle names a session present in the store, different from the id
\* supplied.
C10_FreshSessionInBundle ==
  /\ (InExecute /\ SuppliedNoLiveSession)
       => /\ session_id # request.session_id
          /\ session_id \notin DOMAIN entry.sessions
          /\ conversation_context = <<>>
          /\ sessions[session_id].messages = <<UserTurn>>
  /\ (AskCompleted /\ SuppliedNoLiveSession)
       => /\ response.session_id # request.session_id
          /\ response.session_id \in DOMAIN sessions

\* ------------------------------------------------ claims on the embeddings
IsGroupRequest(r) == r.group
GroupRequests == SelectSeq(calls, IsGroupRequest)
Sent(r) == {r.input[j] : j \in 1..Len(r.input)}

\* C11: generate_embedding is idempotent.  A successful call leaves the text
\* in the cache with the vector it returned; a call for a text that is in the
\* cache returns the cached vector and asks the service nothing; and no
\* operation, single or batch, removes a cache entry or changes its vector,
\* so after any other operations the same text still gives the same vector.
C11_CachedTextIsReturned ==
  /\ [](op.name = "generate_embedding" /\ ~op.raised
          => texts[1] \in DOMAIN cache /\ cache[texts[1]] = embeddings[1])
  /\ [](op.name = "generate_embedding" /\ texts[1] \in DOMAIN entry.cache
          => /\ ~op.raised
             /\ calls = <<>>
             /\ embeddings = <<entry.cache[texts[1]]>>)
  /\ [][\A k \in DOMAIN cache : k \in DOMAIN cache' /\ cache'[k] = cache[k]]_vars

\* a text cached while the service answered with drifted vectors is asked for
\* again, after the other text has been cached as well
C11_Witness ==
  /\ op.name = "generate_embedding"
  /\ texts[1] \in DOMAIN entry.cache
  /\ entry.cache[texts[1]] = ServiceReply(texts[1], 1)
  /\ DOMAIN entry.cache = EmbedTexts
  /\ embeddings = <<entry.cache[texts[1]]>>

\* C12: after generate_embedding or generate_embeddings_batch returns, every
\* text whose vector the service supplied (in a single request or in a group
\* request) is a key of the cache, mapped to that vector.
C12_ServiceVectorsCached ==
  op # NoOp =>
    \A p \in 1..Len(calls) :
      calls[p].ok =>
        \A j \in 1..Len(calls[p].input) :
          /\ calls[p].input[j] \in DOMAIN cache
          /\ cache[calls[p].input[j]] = calls[p].output[j]

\* C13: neither embedding operation sends the service a text that was already
\* a key of the cache when the operation started.
C13_CachedTextNotSent ==
  op # NoOp =>
    \A p \in 1..Len(calls) : Sent(calls[p]) \cap DOMAIN entry.cache = {}

GroupOf(i) == (i - 1) \div op.batch_size + 1
GroupSlice(g) ==
  SubSeq(texts, (g - 1) * op.batch_size + 1, Min(g * op.batch_size, Len(texts)))
\* the group request that an item call at place p of calls falls back from
GroupBefore(p) ==
  calls[CHOOSE q \in 1..(p - 1) :
          calls[q].group /\ \A x \in (q + 1)..(p - 1) : ~calls[x].group]

\* C14: generate_embeddings_batch never aborts.  It returns one vector per
\* input text, in input order; it sends one group request per group of
\* batch_size consecutive texts; item calls are made only for texts of a group
\* whose request failed; and a text whose item call failed too gets the zero
\* vector.
C14_BatchNeverAborts ==
  op.name = "generate_embeddings_batch" =>
    /\ ~op.raised
    /\ Len(embeddings) = Len(texts)
    /\ Len(GroupRequests) = (Len(texts) + op.batch_size - 1) \div op.batch_size
    /\ \A g \in 1..Len(GroupRequests) : GroupRequests[g].input = GroupSlice(g)
    /\ \A p \in 1..Len(calls) :
         ~calls[p].group =>
           /\ p > 1
           /\ ~GroupBefore(p).ok
           /\ Sent(calls[p]) \subseteq Sent(GroupBefore(p))
    /\ \A i \in 1..Len(texts) :
         IF GroupRequests[GroupOf(i)].ok
         THEN embeddings[i] =
                GroupRequests[GroupOf(i)].output[i - (GroupOf(i) - 1) * op.batch_size]
         ELSE \/ texts[i] \in DOMAIN cache /\ embeddings[i] = cache[texts[i]]
              \/ /\ embeddings[i] = ZeroVector
                 /\ \E p \in 1..Len(calls) :
                      ~calls[p].group /\ ~calls[p].ok /\ calls[p].input = <<texts[i]>>

\* a batch of several groups: one request fails and one succeeds, and in the
\* failed group one item call succeeds and one fails
C14_Witness ==
  /\ op.name = "generate_embeddings_batch"
  /\ \E p, q \in 1..Len(calls) :
       calls[p].group /\ ~calls[p].ok /\ calls[q].group /\ calls[q].ok
  /\ \E p, q \in 1..Len(calls) :
       ~calls[p].group /\ ~calls[p].ok /\ ~calls[q].group /\ calls[q].ok
  /\ \E i \in 1..Len(embeddings) : embeddings[i] = ZeroVector

\* --------------------------------------------------- claims on the retrieval
Retrieved == op.name = "get_relevant_chunks" /\ ~op.raised /\ documents # <<>>
Elements(seq) == {seq[i] : i \in 1..Len(seq)}
DistanceTo(p) == L2(index[p], query_vector)
\* position j is ranked before position p: nearer, or as near and inserted earlier
Closer(j, p) ==
  \/ DistanceTo(j) < DistanceTo(p)
  \/ DistanceTo(j) = DistanceTo(p) /\ j < p
RankOfPosition(p) == Cardinality({j \in 1..Len(index) : Closer(j, p)}) + 1
\* 1 / (1 + d) >= threshold / 10
Passes(d, threshold) == 10 >= threshold * (1 + d)
\* the result, if any, that presents the chunk stored at position p
ResultOf(p) ==
  {i \in 1..Len(search_results) :
     /\ search_results[i].rank = RankOfPosition(p)
     /\ search_results[i].content = documents[p].content
     /\ search_results[i].source = documents[p].source
     /\ search_results[i].distance = DistanceTo(p)}

\* C15 as claimed: a search with top_k larger than the number of stored chunks
\* does not raise and returns exactly as many results as there are chunks, none
\* of them taken from a candidate place the index did not fill, whatever the
\* configured threshold.
C15_FewerChunksThanTopK ==
  (op.name = "get_relevant_chunks" /\ Len(index) < top_k) =>
    /\ ~op.raised
    /\ Len(search_results) = Len(index)
    /\ \A i \in 1..Len(search_results) : search_results[i].rank <= Len(index)

\* C16: for the same query, top_k and index, the results under a higher
\* threshold are among the results under a lower threshold, and never more.
C16_ThresholdMonotone ==
  Retrieved =>
    \A threshold \in Thresholds :
      LET other == search(index, documents, query_vector, top_k, threshold)
      IN  /\ threshold >= similarity_threshold
            => /\ Elements(other) \subseteq Elements(search_results)
               /\ Len(other) <= Len(search_results)
          /\ threshold <= similarity_threshold
            => /\ Elements(search_results) \subseteq Elements(other)
               /\ Len(search_results) <= Len(other)

\* a higher threshold would keep some of the results and drop others
C16_Witness ==
  /\ Retrieved
  /\ \E threshold \in Thresholds :
       /\ threshold > similarity_threshold
       /\ search(index, documents, query_vector, top_k, threshold) # <<>>
       /\ Len(search(index, documents, query_vector, top_k, threshold))
            < Len(search_results)

\* C17: the candidates are the top_k stored vectors nearest to the query by
\* squared Euclidean distance, equal distances ranked by insertion position;
\* the results are the candidates that pass the threshold, in rank order
\* (non-decreasing distance), and a chunk ranked after the top_k is never
\* returned.
C17_RankedByDistanceThenPosition ==
  Retrieved =>
    /\ \A i \in 1..(Len(search_results) - 1) :
         search_results[i].rank < search_results[i + 1].rank
    /\ \A i \in 1..Len(search_results) : search_results[i].rank <= top_k
    /\ \A i, j \in 1..Len(search_results) :
         (i < j /\ search_results[j].rank <= Len(index))
           => search_results[i].distance <= search_results[j].distance
    /\ \A i \in 1..Len(search_results) :
         search_results[i].rank <= Len(index)
           => \E p \in 1..Len(index) : i \in ResultOf(p)
    /\ \A p \in 1..Len(index) :
         (RankOfPosition(p) <= top_k /\ Passes(DistanceTo(p), similarity_threshold))
           <=> ResultOf(p) # {}

\* more chunks than top_k; two returned chunks are equally near, and one of
\* the top_k candidates is filtered out by the threshold
C17_Witness ==
  /\ Retrieved
  /\ Len(index) > top_k
  /\ Len(search_results) < top_k
  /\ \E i \in 1..(Len(search_results) - 1) :
       search_results[i].distance = search_results[i + 1].distance

FirstSeen(source) ==
  CHOOSE i \in 1..Len(search_results) :
    /\ search_results[i].source = source
    /\ \A j \in 1..(i - 1) : search_results[j].source # source

\* C18: the source list has no duplicates and lists the sources of the
\* surviving results in the order they are first seen; the chunk list and the
\* context keep every surviving chunk, also several of one source; the source
\* list is empty exactly when the chunk list is.
C18_SourcesDeduplicated ==
  (op.name = "get_relevant_chunks" /\ ~op.raised) =>
    /\ chunks = [i \in 1..Len(search_results) |-> search_results[i].content]
    /\ \A i, j \in 1..Len(sources) : i # j => sources[i] # sources[j]
    /\ Elements(sources) = {search_results[i].source : i \in 1..Len(search_results)}
    /\ \A i, j \in 1..Len(sources) :
         i < j => FirstSeen(sources[i]) < FirstSeen(sources[j])
    /\ (sources = <<>>) <=> (chunks = <<>>)
    /\ IF chunks = <<>>
       THEN context = <<NoDocuments>>
       ELSE /\ Len(context) = Len(chunks)
            /\ \A i \in 1..Len(chunks) : context[i] = [label |-> i, chunk |-> chunks[i]]

\* four surviving results whose sources read A, B, A, C
C18_Witness ==
  /\ op.name = "get_relevant_chunks"
  /\ Len(search_results) = 4
  /\ search_results[1].source = search_results[3].source
  /\ search_results[2].source # search_results[1].source
  /\ search_results[4].source \notin {search_results[1].source, search_results[2].source}
  /\ sources = <<search_results[1].source, search_results[2].source,
                 search_results[4].source>>
  /\ Len(chunks) = 4

\* ---------------------------------------------------- claims on the snapshot
\* the two files belong to one snapshot: both absent, or both present with as
\* many vectors as chunks
SnapshotPair ==
  \/ ~index_file.exists /\ ~docs_file.exists
  \/ /\ index_file.exists
     /\ docs_file.exists
     /\ Len(index_file.data) = Len(docs_file.data)

\* C19 as claimed: the snapshot is saved as one pair.  Whenever no save is
\* under way, also after a save was cut short, the two files are both of
\* the snapshot before the save or both of the new one; so initialize never
\* loads an index with a number of vectors other than the number of chunks.
C19_SnapshotPairAtomic ==
  /\ op.name \notin {SaveBegun, SaveHalfway} => SnapshotPair
  /\ op.name = "initialize" => Len(index) = Len(documents)

\* C20: initialize loads the snapshot only when both files exist; when one of
\* them is missing it starts an empty index with no chunks, does not raise,
\* and reads neither file.
C20_InitializeNeedsBothFiles ==
  op.name = "initialize" =>
    /\ ~op.raised
    /\ IF index_file.exists /\ docs_file.exists
       THEN /\ index = index_file.data
            /\ documents = docs_file.data
            /\ calls = <<FileRead("faiss_index.bin"), FileRead("documents.pkl")>>
       ELSE /\ index = <<>>
            /\ documents = <<>>
            /\ calls = <<>>

\* initialize has run on a disk that holds an index file with vectors and no
\* documents file
C20_Witness ==
  /\ op.name = "initialize"
  /\ index_file.exists
  /\ index_file.data # <<>>
  /\ ~docs_file.exists
  /\ index = <<>>
  /\ documents = <<>>

\* ---------------------------------------------------------------- C21
\* the result search returns for the server's last query on a given store
ResultOn(store) ==
  IF store.documents = <<>> THEN <<>>
  ELSE search(store.index, store.documents, ServiceEmbedding(query), top_k,
              similarity_threshold)
AppendUnderWay == ingest.step \in {SaveBegun, SaveHalfway}
AppendedStore == [index |-> ingest.index, documents |-> ingest.documents]

\* C21: a search that runs while add_documents is under way returns the
\* result on the store as it was before the append or the result on the store
\* with the append complete, never one computed from vectors without their
\* chunks or chunks without their vectors.  The code does not keep this: a
\* server that starts between the two writes of the save (C19) searches the
\* new vectors with the old chunk list.
C21_SearchSeesWholeAppend ==
  (op.name = "search" /\ AppendUnderWay)
    => search_results \in {ResultOn(ingest.loaded), ResultOn(AppendedStore)}

\* ------------------------------------------------------------ C23 .. C26
Accessors == {"get_session", "add_message", "get_conversation_context"}
\* the session the last call named was in the store and not idle past the
\* timeout when the call began
WasLive ==
  /\ memcall.session_id \in DOMAIN entry.sessions
  /\ ~is_expired(entry.sessions[memcall.session_id], entry.now)
IdleAtCall(sid) == entry.now - entry.sessions[sid].last_accessed

\* C23: every get_session that returns a session sets its last_accessed to the
\* current time, and so does every add_message and get_conversation_context on
\* a live session; hence a session whose last access is no longer ago than the
\* timeout is found by the next access and is not removed by any call other
\* than a delete_session naming it, the sweep included.
C23_AccessRefreshes ==
  /\ (memcall.name \in Accessors /\ WasLive)
       => /\ memcall.session_id \in DOMAIN sessions
          /\ sessions[memcall.session_id].last_accessed = now
          /\ memcall.name = "get_session" => memcall.ret = TRUE
  /\ (memcall.name = "get_session" /\ memcall.ret = TRUE)
       => /\ memcall.session_id \in DOMAIN sessions
          /\ sessions[memcall.session_id].last_accessed = now
  /\ memcall.name # None
       => \A sid \in DOMAIN entry.sessions :
            (/\ IdleAtCall(sid) <= timeout_minutes
             /\ ~(memcall.name = "delete_session" /\ memcall.session_id = sid))
              => sid \in DOMAIN sessions

\* an access exactly one timeout after the previous one, which moved
\* last_accessed forward
C23_Witness ==
  /\ memcall.name \in Accessors
  /\ WasLive
  /\ IdleAtCall(memcall.session_id) = timeout_minutes
  /\ sessions[memcall.session_id].last_accessed = now

\* C24: the message list of a session only grows by appending: across every
\* call the list before is a prefix of the list after, an add_message on a
\* live session puts its message at the end, and no other call changes the
\* list of a session that stays in the store.
C24_MessagesAppendOnly ==
  memcall.name # None
    => \A sid \in (DOMAIN entry.sessions) \cap (DOMAIN sessions) :
         LET before == entry.sessions[sid].messages
             after == sessions[sid].messages
         IN  IF memcall.name = "add_message" /\ memcall.session_id = sid
             THEN after = Append(before, [role |-> memcall.role,
                                          content |-> memcall.content])
             ELSE after = before

\* a second message was appended behind a different first one
C24_Witness ==
  /\ memcall.name = "add_message"
  /\ memcall.session_id \in DOMAIN sessions
  /\ Len(sessions[memcall.session_id].messages) = 2
  /\ sessions[memcall.session_id].messages[1].role # memcall.role
  /\ sessions[memcall.session_id].messages[2].role = memcall.role

ExpiredAtCall == {sid \in DOMAIN entry.sessions : IdleAtCall(sid) > timeout_minutes}

\* C25: the sweep deletes exactly the sessions idle longer than the timeout,
\* returns their number and leaves every other session as it was; the
\* statistics report that number and the session count after the sweep.
C25_SweepExact ==
  memcall.name = "cleanup_expired_sessions"
    => /\ DOMAIN sessions = (DOMAIN entry.sessions) \ ExpiredAtCall
       /\ \A sid \in DOMAIN sessions : sessions[sid] = entry.sessions[sid]
       /\ memcall.ret.expired_cleaned = Cardinality(ExpiredAtCall)
       /\ memcall.ret.total_sessions = Cardinality(DOMAIN sessions)

\* a sweep that removed one session and kept another
C25_Witness ==
  /\ memcall.name = "cleanup_expired_sessions"
  /\ memcall.ret.expired_cleaned = 1
  /\ memcall.ret.total_sessions = 1

\* the text the claim describes for the last call: the header, then the most
\* recent min(max_messages, n) messages, oldest first
WindowText ==
  LET stored == IF WasLive THEN entry.sessions[memcall.session_id].messages ELSE <<>>
      m == Min(memcall.limit, Len(stored))
      window == SubSeq(stored, Len(stored) - m + 1, Len(stored))
  IN  IF m = 0 THEN <<>>
      ELSE <<ContextHeader>> \o [i \in 1..m |-> ContextLine(window[i])]

\* C26: get_conversation_context(id, max_messages) returns the most recent
\* min(max_messages, n) messages of a live session holding n, oldest first,
\* one "role: content" line each, never more than max_messages of them, and
\* the empty string for an unknown, expired or empty session.  The code does
\* not keep this for max_messages = 0, which it takes as "no limit".
C26_ContextWindow ==
  memcall.name = "get_conversation_context" => memcall.ret = WindowText

\* ---------------------------------------------------------------- C22
\* C22: an access and a sweep on the same session exclude each other: a call
\* that returns a session as valid, or has appended to it, holds a session
\* that is in the store (no sweep deleted it under the call), and when the
\* sweep deletes a session its last_accessed is still the one the sweep
\* judged expired (nothing refreshed it in between).
C22_AccessExcludesSweep ==
  /\ (accessor.pc \in {"check", "expire", "refresh", "append"})
       => accessor.session_id \in DOMAIN sessions
  /\ (accessor.pc = "returned" /\ accessor.found)
       => /\ accessor.session_id \in DOMAIN sessions
          /\ sessions[accessor.session_id] = accessor.obj
  /\ sweeper.pc = "delete"
       => \A sid \in sweeper.expired_sessions :
            /\ sid \in DOMAIN sessions
            /\ sessions[sid].last_accessed = sweeper.judged[sid]

\* the sweep has judged expired a session that an earlier call appended to
C22_Witness ==
  /\ sweeper.pc = "delete"
  /\ \E sid \in sweeper.expired_sessions : sessions[sid].messages # <<>>

\* ---------------------------------------------------------------- C27
CallsOf(kind) == {i \in DOMAIN calls : calls[i].kind = kind}
\* the steps execute can take from one position to the next
AskOrder ==
  {<<"idle", "classify">>, <<"idle", "done">>,
   <<"classify", "search">>, <<"classify", "generate">>,
   <<"search", "generate">>, <<"search", "record">>, <<"search", "done">>,
   <<"generate", "record">>, <<"generate", "done">>,
   <<"record", "done">>, <<"done", "idle">>}
PastClassified ==
  \/ pc \in {"search", "generate", "record"}
  \/ pc = "done" /\ response.route = "ask" /\ calls # <<>>

\* C27: every Ask moves through received, session resolved, classified,
\* retrieved or skipped, answered, recorded in that order: one classification
\* call is issued, first; the documents are searched only when grounding was
\* selected; generation is called at most once, after classification and
\* retrieval; the assistant turn is not in the session before the answer is
\* fixed; and nothing is written to the session after the recording.
C27_AskStateOrder ==
  /\ [](pc = "classify" => calls = <<>>)
  /\ [](PastClassified => CallsOf("classify") = {1})
  /\ []((pc = "search" \/ CallsOf("embed") # {}) => classification.needs_rag)
  /\ [](Cardinality(CallsOf("generate")) <= 1)
  /\ [](\A i \in CallsOf("generate") : i = Len(calls) /\ i > 1 /\ pc \in {"record", "done"})
  /\ [](\A i \in CallsOf("embed") : i = 2)
  /\ []((InExecute /\ session_id \in DOMAIN sessions)
          => /\ sessions[session_id].messages # <<>>
             /\ Last(sessions[session_id].messages) = UserTurn)
  /\ [][pc' = pc \/ <<pc, pc'>> \in AskOrder]_vars
  /\ [][pc = "done" => sessions' = sessions]_vars
  /\ [][(pc \in {"classify", "search", "generate"}) => sessions' = sessions]_vars

\* a grounded Ask that classified, retrieved, generated and recorded
C27_Witness ==
  /\ pc = "done"
  /\ response.route = "ask"
  /\ response.status = 200
  /\ Len(calls) = 3
  /\ calls[1].kind = "classify" /\ calls[2].kind = "embed" /\ calls[3].kind = "generate"
  /\ Last(sessions[session_id].messages) = [role |-> "assistant", content |-> answer]

\* ---------------------------------------------------------------- C28
ResetDone == pc = "done" /\ response.route = "reset-session"

\* C28: ResetSession(id) is acknowledged whether or not the id is known and
\* leaves the id out of the store and every other session as it was; the id
\* stays out, so a later get_session(id) finds nothing and a later Ask naming
\* it is served in a new session with another id and an empty history.
C28_ResetRemovesSession ==
  /\ [](ResetDone => /\ response.status = 200
                     /\ response.session_id \notin DOMAIN sessions)
  /\ [][ResetDone'
          => /\ DOMAIN sessions' = (DOMAIN sessions) \ {response'.session_id}
             /\ \A sid \in DOMAIN sessions' : sessions'[sid] = sessions[sid]]_vars
  /\ [][\A sid \in IssuedIds : sid \notin DOMAIN sessions => sid \notin DOMAIN sessions']_vars
  /\ []((InExecute /\ request.session_id # None
                   /\ request.session_id \notin DOMAIN entry.sessions)
          => /\ session_id # request.session_id
             /\ session_id \notin DOMAIN entry.sessions
             /\ conversation_context = <<>>)

\* an Ask names an identifier that was reset (no time has passed, so it did
\* not expire) and is being served in a new session
C28_Witness ==
  /\ InExecute
  /\ now = 0
  /\ request.session_id \in IssuedIds
  /\ request.session_id \notin DOMAIN entry.sessions
  /\ session_id \in DOMAIN sessions

\* ---------------------------------------------------------------- C29
Max(a, b) == IF a >= b THEN a ELSE b
ChunkContents == [i \in 1..Len(chunked) |-> chunked[i].content]
Ink(t) == SelectSeq(t, LAMBDA c : c \notin Whitespace)
InkOf(chs) == [i \in 1..Len(chs) |-> Ink(chs[i])]
MatchesAt(t, piece, o) ==
  /\ o + Len(piece) - 1 <= Len(t)
  /\ \A j \in 1..Len(piece) : t[o + j - 1] = piece[j]

\* the chunks from the j-th on lie in the text in order, each starting no
\* later than the character after the last one covered so far, and between
\* them they reach the end of the text
RECURSIVE CoversFrom(_, _, _, _, _)
CoversFrom(t, chs, j, from, covered) ==
  IF j > Len(chs) THEN covered = Len(t)
  ELSE \E o \in from..(covered + 1) :
         /\ MatchesAt(t, chs[j], o)
         /\ CoversFrom(t, chs, j + 1, o, Max(covered, o + Len(chs[j]) - 1))
Covers(t, chs) == CoversFrom(t, chs, 1, 1, 0)

\* chunk i of n (counted from 0) carries chunk_index = i and total_chunks = n
Numbered ==
  \A i \in 1..Len(chunked) :
    /\ chunked[i].metadata.chunk_index = i - 1
    /\ chunked[i].metadata.total_chunks = Len(chunked)

\* C29 as stated: for chunk_size > chunk_overlap >= 0 the chunks of a
\* non-empty text cover all of it, no character being missing from every
\* chunk; an empty text gives no chunk, a text shorter than chunk_size exactly
\* one, and the chunks are numbered.
C29_ChunksCoverText ==
  op.name = "chunk_text"
    => /\ doc_text = <<>> => chunked = <<>>
       /\ doc_text # <<>> => Covers(doc_text, ChunkContents)
       /\ (doc_text # <<>> /\ Len(doc_text) < splitter.chunk_size) => Len(chunked) = 1
       /\ Numbered

\* C29, amended: the chunks cover every character of the text that is not
\* whitespace (whitespace around a merged chunk is stripped, and a merged
\* chunk of nothing but whitespace is dropped) and each chunk is a piece of
\* the text; an empty text gives no chunk, a text shorter than chunk_size with
\* anything but whitespace in it exactly one, the stripped text; and the
\* chunks are numbered from 0.
C29_ChunksCoverInk ==
  op.name = "chunk_text"
    => /\ doc_text = <<>> => chunked = <<>>
       /\ Covers(Ink(doc_text), InkOf(ChunkContents))
       /\ (Ink(doc_text) # <<>> /\ Len(doc_text) < splitter.chunk_size)
            => ChunkContents = <<Strip(doc_text)>>
       /\ \A i \in 1..Len(chunked) :
            \E o \in 1..Len(doc_text) : MatchesAt(doc_text, chunked[i].content, o)
       /\ Numbered

\* a text cut into two chunks at a blank that neither chunk keeps
C29_Witness ==
  /\ op.name = "chunk_text"
  /\ Len(chunked) = 2
  /\ splitter.chunk_overlap > 0
  /\ ~Covers(doc_text, ChunkContents)
  /\ Len(Ink(doc_text)) = Len(doc_text) - 1

\* ---------------------------------------------------------------- C30
\* add_documents has returned: its save is complete
AddDocumentsDone == op = NoOp /\ calls # <<>>

\* C30: after add_documents on an initialized store, whatever embedding
\* requests failed, the index holds as many vectors as there are stored
\* chunks and the vector at position i is the one computed for chunk i (the
\* zero vector where the request failed).  The code does not keep this on a
\* store that initialize loaded from a snapshot cut in two (C19): the surplus
\* vectors stay, and every later chunk sits one position off its vector.
C30_IndexMatchesChunks ==
  AddDocumentsDone
    => /\ Len(index) = Len(documents)
       /\ \A i \in 1..Len(documents) :
            i <= Len(index)
              => index[i] \in {ServiceReply(documents[i].content, 0), ZeroVector}

\* ---------------------------------------------------------------- C31
\* C31: when the ask handler itself finds the query longer than
\* settings.max_query_length (the request passed the field validation and
\* entered the handler), the response is 400 Bad Request with the "Query too
\* long" detail, and not 500.  The code does not do this: the HTTPException
\* of line 45 is raised inside the try block of line 42, and the handler's
\* own `except Exception` (line 55) catches it and answers 500.
C31_TooLongAnswers400 ==
  (/\ pc = "done"
   /\ response.route = "ask"
   /\ FieldsValid(request.query)
   /\ TooLong(request.query, max_query_length))
  => /\ response.status = 400
     /\ response.detail = "Query too long"

====
